---- MODULE Spec2Model ----
(***************************************************************************)
(* The agent loop of the side panel (getChatResponse and                   *)
(* getChatResponseInternal), the page capture it awaits (getPageData) and  *)
(* the completion call it awaits (sendChatCompletion), as one state        *)
(* machine.  Every await of the code is a position of pc; an action is the *)
(* code that runs from the settling of one await to the next await.        *)
(*                                                                         *)
(* sendChatCompletion returns response.json(), the parsed body, and the    *)
(* loop then reads .ok and calls .json() on that value as if it were the   *)
(* fetch Response.  The call throws, so the statements of the loop after   *)
(* it (parsing the reply, the done check, executeAction, the recursion     *)
(* with the action results) are reached by no step, and the model has no   *)
(* action for them: dispatched and previousActionResults never change.     *)
(*                                                                         *)
(* Three functions that only those statements call are examined on their   *)
(* own, each under a specification that draws the call's arguments and     *)
(* environment in its initial states while the loop is at rest: ParseSpec  *)
(* for parseAction, ExecSpec for the side panel's executeAction, PageSpec  *)
(* for the content script's findElement and the actions that use it.       *)
(*                                                                         *)
(* The page's side of a capture, getPageStructuredData, is examined under  *)
(* TreeSpec: convertToDOMNode builds the tree from the raw map, the        *)
(* serializer clickableElementsToString reads it, getXPaths gathers the    *)
(* locator map.                                                            *)
(***************************************************************************)
EXTENDS Integers, Sequences, FiniteSets, TLC

\* ------------------------------------------------------------------ bounds

\* largest round budget a stored configuration holds in the model
MaxRoundsBound == 3
\* longest action batch the model's reply carries
MaxBatch == 3

\* --------------------------------------------------------- program constants

\* getChatResponse: config.maxRounds ?? 20
EntryDefaultRounds == 20
\* getChatResponseInternal: maxAttempts ?? 10
InternalDefaultRounds == 10
\* getPageData: for (let attempt = 1; attempt <= 5; attempt++)
MaxCaptureAttempts == 5
\* getPageData: await sleep(1000)
RetryDelayMs == 1000

\* ------------------------------------------------------------------- values

\* an optional field is a sequence of at most one value; <<>> is undefined
Undefined == <<>>

\* JavaScript's x ?? d
Nullish(x, d) == IF x = Undefined THEN d ELSE x[1]

\* the ChatUpdate / ChatResponse texts of the loop
MsgCollecting == "Collecting browser context..."
MsgBudget == "Failed to complete task after N attempts"
MsgUnknown == "An unknown error occurred"
MsgCompleted == "Task is completed"
MsgRawText == "the model's raw text"
MsgNoMoreActions == "No more actions to perform."

\* what the code throws, by the place that throws it; isError tells whether
\* the thrown value is an Error instance (getPageData throws a bare string)
ErrApiKey == [isError |-> TRUE, message |-> "API key not configured"]
ErrConfigRead == [isError |-> TRUE, message |-> "configuration read failed"]
ErrNoActiveTab == [isError |-> TRUE, message |-> "No active tab found"]
ErrCapture == [isError |-> FALSE, message |-> "Cannot access tab content"]
ErrLastAttempt == [isError |-> TRUE, message |-> "Could not establish connection"]
ErrNetwork == [isError |-> TRUE, message |-> "Failed to fetch"]
ErrHttpStatus == [isError |-> TRUE, message |-> "API request failed with status"]
ErrMalformedPayload == [isError |-> TRUE, message |-> "Unexpected token in JSON"]
ErrNotAFunction == [isError |-> TRUE, message |-> "response.json is not a function"]
NoError == [isError |-> FALSE, message |-> "none"]

\* the action kinds a reply's batch is drawn from
ActionKinds == {"click_element", "scroll", "done"}

\* the batches of at most MaxBatch actions
Batches == UNION {[1..n -> ActionKinds] : n \in 0..MaxBatch}

\* the content of choices[0].message.content: an action batch as JSON, text
\* that is not JSON, or no content
BatchContent(b) == [kind |-> "batch", actions |-> b]
PlainText == [kind |-> "text", actions |-> <<>>]
NoContent == [kind |-> "none", actions |-> <<>>]
Contents == {BatchContent(b) : b \in Batches} \cup {PlainText, NoContent}

\* the bodies response.json() of sendChatCompletion can resolve with: parsed
\* JSON, which may or may not carry a truthy "ok" member
Bodies == [ok : BOOLEAN, content : Contents]
NoBody == [ok |-> FALSE, content |-> [kind |-> "no response", actions |-> <<>>]]

\* the stored configurations: maxRounds is positive (the default is 10 and
\* updateMaxRounds rejects a value that is not)
Configs == [apiKey : BOOLEAN, maxRounds : {<<n>> : n \in 1..MaxRoundsBound}]

VARIABLES
    config,                 \* the record held by configStorage
    pc,                     \* the await the invocation is suspended at
    maxAttempts,            \* getChatResponseInternal's maxAttempts
    attempt,                \* getChatResponseInternal's attempt
    previousActionResults,  \* getChatResponseInternal's previousActionResults
    gpdAttempt,             \* getPageData's attempt
    result,                 \* the ChatResponse content the invocation resolved with
    chatUpdates,            \* the contents emitted to the chat-update listeners
    caught,                 \* the error the outer catch handled in the last step
    delivered,              \* the body sendChatCompletion resolved with in the last step
    captures,               \* getPageData calls of the invocation
    completions,            \* completion requests of the invocation
    doneFreeRounds,         \* rounds whose reply was a non-empty batch without done
    gpdSent,                \* GET_PAGE_DATA requests of the current capture
    delays,                 \* the sleeps of the current capture, in ms
    dispatched,             \* the actions handed to executeAction in the round
    roundCompletions,       \* completion requests since the round's capture began
    inFlight,               \* the page-channel requests sent and not yet answered
    call,                   \* the function call examined on its own: arguments and page
    upc,                    \* the await that call is suspended at
    frame,                  \* the locals that call holds across its awaits
    ret,                    \* the value that call returned or resolved with
    effects                 \* the collaborator calls that call has made, in order

\* the variables of the agent loop, and those of a function examined on its own
loopVars == <<config, pc, maxAttempts, attempt, previousActionResults, gpdAttempt,
              result, chatUpdates, caught, delivered, captures, completions,
              doneFreeRounds, gpdSent, delays, dispatched, roundCompletions, inFlight>>
unitVars == <<call, upc, frame, ret, effects>>

vars == <<loopVars, unitVars>>

\* the counters that only observe the run
observers == <<captures, completions, doneFreeRounds, gpdSent, delays>>

\* ------------------------------------------------------------------ helpers

\* error instanceof Error ? error.message : 'An unknown error occurred'
ErrorText(error) == IF error.isError THEN error.message ELSE MsgUnknown

\* a step of the invocation in which nothing is caught and no body arrives
Quiet == caught' = NoError /\ delivered' = NoBody

\* getChatResponseInternal(message, a, max, hist) up to its first await: the
\* budget check, then the configuration read of the round
getChatResponseInternal(a, max, hist) ==
    /\ attempt' = a
    /\ previousActionResults' = hist
    /\ IF a > Nullish(<<max>>, InternalDefaultRounds)
       THEN /\ chatUpdates' = Append(chatUpdates, MsgBudget)
            /\ result' = MsgBudget
            /\ pc' = "returned"
       ELSE /\ pc' = "round_config"
            /\ UNCHANGED <<result, chatUpdates>>

\* CatchOuter without its retry: every caught error ends the invocation
CatchOuter_NoRetry(error) ==
    /\ caught' = error
    /\ chatUpdates' = Append(chatUpdates, ErrorText(error))
    /\ result' = ErrorText(error)
    /\ pc' = "returned"
    /\ UNCHANGED <<attempt, previousActionResults>>

\* CatchOuter retrying while attempt <= maxAttempts
CatchOuter_RetryAtBudget(error) ==
    /\ caught' = error
    /\ IF attempt <= maxAttempts
       THEN getChatResponseInternal(attempt + 1, maxAttempts, <<>>)
       ELSE /\ chatUpdates' = Append(chatUpdates, ErrorText(error))
            /\ result' = ErrorText(error)
            /\ pc' = "returned"
            /\ UNCHANGED <<attempt, previousActionResults>>

\* the outer catch of getChatResponseInternal: another round, started without
\* the history, while attempt < maxAttempts, and the error's text otherwise
CatchOuter(error) ==
    /\ caught' = error
    /\ IF attempt < maxAttempts
       THEN getChatResponseInternal(attempt + 1, maxAttempts, <<>>)
       ELSE /\ chatUpdates' = Append(chatUpdates, ErrorText(error))
            /\ result' = ErrorText(error)
            /\ pc' = "returned"
            /\ UNCHANGED <<attempt, previousActionResults>>

\* CaptureAttemptFailed sleeping after the last attempt too
CaptureAttemptFailed_SleepsAfterLast ==
    IF gpdAttempt <= MaxCaptureAttempts
    THEN /\ delays' = Append(delays, RetryDelayMs)
         /\ pc' = "cap_sleep"
         /\ caught' = NoError
         /\ UNCHANGED <<attempt, previousActionResults, result, chatUpdates>>
    ELSE /\ CatchOuter(ErrCapture)
         /\ UNCHANGED delays

\* the catch of getPageData's retry loop: a fixed sleep before the next
\* attempt, and after the last attempt the throw that leaves getPageData
CaptureAttemptFailed ==
    IF gpdAttempt < MaxCaptureAttempts
    THEN /\ delays' = Append(delays, RetryDelayMs)
         /\ pc' = "cap_sleep"
         /\ caught' = NoError
         /\ UNCHANGED <<attempt, previousActionResults, result, chatUpdates>>
    ELSE /\ CatchOuter(ErrCapture)
         /\ UNCHANGED delays

\* the loop's handling of what sendChatCompletion resolved with.  The value
\* is the parsed JSON body, not the fetch Response: it has no json method, so
\* the call at line 139 (ok absent or falsy) or at line 145 (ok truthy)
\* throws a TypeError inside the outer try
HandleCompletionResponse(response) ==
    IF ~response.ok
    THEN CatchOuter(ErrNotAFunction)
    ELSE CatchOuter(ErrNotAFunction)

\* whether a batch holds a done action, and where the first one is
HasDone(b) == \E i \in 1..Len(b) : b[i] = "done"
FirstDone(b) == CHOOSE i \in 1..Len(b) : b[i] = "done" /\ \A j \in 1..(i - 1) : b[j] # "done"

\* a reply that is a non-empty batch without done
DoneFree(content) ==
    content.kind = "batch" /\ Len(content.actions) > 0 /\ ~HasDone(content.actions)

\* ------------------------------------------------------------------- Init

\* no function is examined on its own
NoCall == [fn |-> "none"]
NoFrame == [at |-> "none"]
NoReturn == [settled |-> "none"]
UnitIdle ==
    /\ call = NoCall
    /\ upc = "none"
    /\ frame = NoFrame
    /\ ret = NoReturn
    /\ effects = <<>>

\* the side panel before a message is sent
LoopIdle ==
    /\ pc = "idle"
    /\ maxAttempts = 0
    /\ attempt = 0
    /\ previousActionResults = <<>>
    /\ gpdAttempt = 0
    /\ result = "pending"
    /\ chatUpdates = <<>>
    /\ caught = NoError
    /\ delivered = NoBody
    /\ captures = 0
    /\ completions = 0
    /\ doneFreeRounds = 0
    /\ gpdSent = 0
    /\ delays = <<>>
    /\ dispatched = <<>>
    /\ roundCompletions = 0
    /\ inFlight = <<>>

Init ==
    /\ config \in Configs
    /\ LoopIdle
    /\ UnitIdle

\* ---------------------------------------------------------------- actions

\* SidePanel.handleSendMessage calls getChatResponse, which awaits the
\* configuration
getChatResponse ==
    /\ pc = "idle"
    /\ UNCHANGED <<dispatched, roundCompletions, inFlight, unitVars>>
    /\ pc' = "entry_config"
    /\ Quiet
    /\ UNCHANGED <<config, maxAttempts, attempt, previousActionResults, gpdAttempt,
                   result, chatUpdates, observers>>

\* the configuration read of getChatResponse settles: outside every try, so
\* a rejection rejects the invocation
EntryConfigSettles ==
    /\ pc = "entry_config"
    /\ UNCHANGED <<dispatched, roundCompletions, inFlight, unitVars>>
    /\ \E ok \in BOOLEAN :
        IF ok
        THEN /\ maxAttempts' = Nullish(config.maxRounds, EntryDefaultRounds)
             /\ getChatResponseInternal(1, maxAttempts', <<>>)
        ELSE /\ pc' = "rejected"
             /\ UNCHANGED <<maxAttempts, attempt, previousActionResults, result,
                            chatUpdates>>
    /\ Quiet
    /\ UNCHANGED <<config, gpdAttempt, observers>>

\* RoundConfigSettles without the API key check
RoundConfigSettles_SkipsKeyCheck ==
    /\ pc = "round_config"
    /\ UNCHANGED <<dispatched, inFlight, unitVars>>
    /\ \E ok \in BOOLEAN :
        IF ok
        THEN /\ chatUpdates' = Append(chatUpdates, MsgCollecting)
             /\ pc' = "cap_tab"
             /\ captures' = captures + 1
             /\ gpdSent' = 0
             /\ delays' = <<>>
             /\ gpdAttempt' = 0
             /\ roundCompletions' = 0
             /\ caught' = NoError
             /\ UNCHANGED <<attempt, previousActionResults, result>>
        ELSE /\ CatchOuter(ErrConfigRead)
             /\ UNCHANGED <<captures, gpdSent, delays, gpdAttempt, roundCompletions>>
    /\ delivered' = NoBody
    /\ UNCHANGED <<config, maxAttempts, completions, doneFreeRounds>>

\* the configuration read of a round settles: the API key check, then the
\* capture begins with getActiveTab
RoundConfigSettles ==
    /\ pc = "round_config"
    /\ UNCHANGED <<dispatched, inFlight, unitVars>>
    /\ \E ok \in BOOLEAN :
        IF ok /\ config.apiKey
        THEN /\ chatUpdates' = Append(chatUpdates, MsgCollecting)
             /\ pc' = "cap_tab"
             /\ captures' = captures + 1
             /\ gpdSent' = 0
             /\ delays' = <<>>
             /\ gpdAttempt' = 0
             /\ roundCompletions' = 0
             /\ caught' = NoError
             /\ UNCHANGED <<attempt, previousActionResults, result>>
        ELSE /\ CatchOuter(IF ok THEN ErrApiKey ELSE ErrConfigRead)
             /\ UNCHANGED <<captures, gpdSent, delays, gpdAttempt, roundCompletions>>
    /\ delivered' = NoBody
    /\ UNCHANGED <<config, maxAttempts, completions, doneFreeRounds>>

\* getPageData's getActiveTab settles: without a tab getPageData throws
\* before its retry loop; with one, attempt 1 sends GET_PAGE_DATA
ActiveTabSettles ==
    /\ pc = "cap_tab"
    /\ UNCHANGED <<dispatched, roundCompletions, unitVars>>
    /\ \E found \in BOOLEAN :
        IF found
        THEN /\ gpdAttempt' = 1
             /\ gpdSent' = gpdSent + 1
             /\ inFlight' = Append(inFlight, "GET_PAGE_DATA")
             /\ pc' = "cap_gpd"
             /\ caught' = NoError
             /\ UNCHANGED <<attempt, previousActionResults, result, chatUpdates>>
        ELSE /\ CatchOuter(ErrNoActiveTab)
             /\ UNCHANGED <<gpdAttempt, gpdSent, inFlight>>
    /\ delivered' = NoBody
    /\ UNCHANGED <<config, maxAttempts, captures, completions, doneFreeRounds, delays>>

\* the requests in flight once the page has answered one of a type
Answered(requests, type) == SelectSeq(requests, LAMBDA sent : sent # type)

\* the requests in flight after the step of an attempt at a position: the
\* callback of GET_PAGE_DATA or GET_SCROLL_INFO has run, with or without
\* lastError, or getTabsInfo has resolved and getScrollInfo sends its request
InFlightAfter(at, ok) ==
    CASE at = "cap_gpd" -> Answered(inFlight, "GET_PAGE_DATA")
      [] at = "cap_scroll" -> Answered(inFlight, "GET_SCROLL_INFO")
      [] at = "cap_tabs" /\ ok -> Append(inFlight, "GET_SCROLL_INFO")
      [] OTHER -> inFlight

\* AttemptStepSettles giving up on a request that failed without taking it
\* out of the requests in flight
AttemptStepSettles_KeepsFailedRequest(at, next) ==
    /\ pc = at
    /\ UNCHANGED <<dispatched, roundCompletions, unitVars>>
    /\ \E ok \in BOOLEAN :
        /\ IF ok
           THEN /\ pc' = next
                /\ Quiet
                /\ UNCHANGED <<attempt, previousActionResults, result, chatUpdates, delays>>
           ELSE /\ CaptureAttemptFailed
                /\ delivered' = NoBody
        /\ inFlight' = IF ok THEN InFlightAfter(at, ok) ELSE inFlight
    /\ UNCHANGED <<config, maxAttempts, gpdAttempt, captures, completions,
                   doneFreeRounds, gpdSent>>

\* the steps of one attempt of getPageData, in the order of the try block:
\* the GET_PAGE_DATA response, captureScreenshot, getTabsInfo, getScrollInfo
AttemptStepSettles(at, next) ==
    /\ pc = at
    /\ UNCHANGED <<dispatched, roundCompletions, unitVars>>
    /\ \E ok \in BOOLEAN :
        /\ IF ok
           THEN /\ pc' = next
                /\ Quiet
                /\ UNCHANGED <<attempt, previousActionResults, result, chatUpdates, delays>>
           ELSE /\ CaptureAttemptFailed
                /\ delivered' = NoBody
        /\ inFlight' = InFlightAfter(at, ok)
    /\ UNCHANGED <<config, maxAttempts, gpdAttempt, captures, completions,
                   doneFreeRounds, gpdSent>>

PageDataResponds == AttemptStepSettles("cap_gpd", "cap_shot")
ScreenshotSettles == AttemptStepSettles("cap_shot", "cap_tabs")
TabsInfoSettles == AttemptStepSettles("cap_tabs", "cap_scroll")
\* with the scroll metrics getPageData returns, the prompt is assembled and
\* sendChatCompletion awaits the configuration
ScrollInfoResponds == AttemptStepSettles("cap_scroll", "comp_config")

\* SleepElapses retrying without counting the attempt
SleepElapses_SameAttempt ==
    /\ pc = "cap_sleep"
    /\ UNCHANGED <<dispatched, roundCompletions, unitVars>>
    /\ gpdAttempt' = gpdAttempt
    /\ IF gpdAttempt' <= MaxCaptureAttempts
       THEN /\ gpdSent' = gpdSent + 1
            /\ inFlight' = Append(inFlight, "GET_PAGE_DATA")
            /\ pc' = "cap_gpd"
            /\ caught' = NoError
            /\ UNCHANGED <<attempt, previousActionResults, result, chatUpdates>>
       ELSE /\ CatchOuter(ErrLastAttempt)
            /\ UNCHANGED <<gpdSent, inFlight>>
    /\ delivered' = NoBody
    /\ UNCHANGED <<config, maxAttempts, captures, completions, doneFreeRounds, delays>>

\* the sleep of getPageData ends: attempt++, and while attempt <= 5 the next
\* GET_PAGE_DATA; past the loop getPageData throws the last error
SleepElapses ==
    /\ pc = "cap_sleep"
    /\ UNCHANGED <<dispatched, roundCompletions, unitVars>>
    /\ gpdAttempt' = gpdAttempt + 1
    /\ IF gpdAttempt' <= MaxCaptureAttempts
       THEN /\ gpdSent' = gpdSent + 1
            /\ inFlight' = Append(inFlight, "GET_PAGE_DATA")
            /\ pc' = "cap_gpd"
            /\ caught' = NoError
            /\ UNCHANGED <<attempt, previousActionResults, result, chatUpdates>>
       ELSE /\ CatchOuter(ErrLastAttempt)
            /\ UNCHANGED <<gpdSent, inFlight>>
    /\ delivered' = NoBody
    /\ UNCHANGED <<config, maxAttempts, captures, completions, doneFreeRounds, delays>>

\* CompletionConfigSettles sending the request twice
CompletionConfigSettles_SendsTwice ==
    /\ pc = "comp_config"
    /\ UNCHANGED <<dispatched, inFlight, unitVars>>
    /\ \E ok \in BOOLEAN :
        IF ok
        THEN /\ completions' = completions + 2
             /\ roundCompletions' = roundCompletions + 2
             /\ pc' = "comp_fetch"
             /\ caught' = NoError
             /\ UNCHANGED <<attempt, previousActionResults, result, chatUpdates>>
        ELSE /\ CatchOuter(ErrConfigRead)
             /\ UNCHANGED <<completions, roundCompletions>>
    /\ delivered' = NoBody
    /\ UNCHANGED <<config, maxAttempts, gpdAttempt, captures, doneFreeRounds,
                   gpdSent, delays>>

\* sendChatCompletion's configuration read settles and the request is sent
CompletionConfigSettles ==
    /\ pc = "comp_config"
    /\ UNCHANGED <<dispatched, inFlight, unitVars>>
    /\ \E ok \in BOOLEAN :
        IF ok
        THEN /\ completions' = completions + 1
             /\ roundCompletions' = roundCompletions + 1
             /\ pc' = "comp_fetch"
             /\ caught' = NoError
             /\ UNCHANGED <<attempt, previousActionResults, result, chatUpdates>>
        ELSE /\ CatchOuter(ErrConfigRead)
             /\ UNCHANGED <<completions, roundCompletions>>
    /\ delivered' = NoBody
    /\ UNCHANGED <<config, maxAttempts, gpdAttempt, captures, doneFreeRounds,
                   gpdSent, delays>>

\* fetch settles: a network failure, a status that is not ok (both thrown by
\* sendChatCompletion), or an ok response whose body is then read
FetchSettles ==
    /\ pc = "comp_fetch"
    /\ UNCHANGED <<dispatched, roundCompletions, inFlight, unitVars>>
    /\ \E outcome \in {"network", "status", "ok"} :
        IF outcome = "ok"
        THEN /\ pc' = "comp_json"
             /\ caught' = NoError
             /\ UNCHANGED <<attempt, previousActionResults, result, chatUpdates>>
        ELSE CatchOuter(IF outcome = "network" THEN ErrNetwork ELSE ErrHttpStatus)
    /\ delivered' = NoBody
    /\ UNCHANGED <<config, maxAttempts, gpdAttempt, observers>>

\* response.json() of sendChatCompletion settles: a body that is not JSON
\* rejects; otherwise the parsed body is what the loop receives
BodySettles ==
    /\ pc = "comp_json"
    /\ UNCHANGED <<dispatched, roundCompletions, inFlight, unitVars>>
    /\ \/ /\ CatchOuter(ErrMalformedPayload)
          /\ delivered' = NoBody
          /\ UNCHANGED doneFreeRounds
       \/ \E body \in Bodies :
            /\ delivered' = body
            /\ doneFreeRounds' = doneFreeRounds + (IF DoneFree(body.content) THEN 1 ELSE 0)
            /\ HandleCompletionResponse(body)
    /\ UNCHANGED <<config, maxAttempts, gpdAttempt, captures, completions, gpdSent, delays>>

\* the popup saves a setting: updateApiKey, or updateMaxRounds, which rejects
\* a value that is not positive
PopupUpdate ==
    /\ \/ \E k \in BOOLEAN : config' = [config EXCEPT !.apiKey = k]
       \/ \E n \in 1..MaxRoundsBound : config' = [config EXCEPT !.maxRounds = <<n>>]
    /\ config' # config
    /\ UNCHANGED <<dispatched, roundCompletions, inFlight, unitVars>>
    /\ UNCHANGED <<pc, maxAttempts, attempt, previousActionResults, gpdAttempt,
                   result, chatUpdates, caught, delivered, observers>>

Next ==
    \/ getChatResponse
    \/ EntryConfigSettles
    \/ RoundConfigSettles
    \/ ActiveTabSettles
    \/ PageDataResponds
    \/ ScreenshotSettles
    \/ TabsInfoSettles
    \/ ScrollInfoResponds
    \/ SleepElapses
    \/ CompletionConfigSettles
    \/ FetchSettles
    \/ BodySettles
    \/ PopupUpdate

Spec == Init /\ [][Next]_vars

\* ------------------------------------------------------------------ claims

\* the awaits of getPageData's retry loop, and of sendChatCompletion
CapturePositions == {"cap_gpd", "cap_shot", "cap_tabs", "cap_scroll", "cap_sleep"}
CompletionPositions == {"comp_config", "comp_fetch", "comp_json"}

\* the errors of a completion that did not succeed or whose payload is malformed
ApiErrors == {ErrHttpStatus, ErrMalformedPayload}

\* C1: when the reply is a batch with a done action, the actions before the
\* first done are dispatched in order, nothing after it is, and the
\* invocation returns the success result in that round.
C1_DoneEndsLoop ==
    (delivered.content.kind = "batch" /\ HasDone(delivered.content.actions)) =>
        /\ dispatched = SubSeq(delivered.content.actions, 1,
                               FirstDone(delivered.content.actions) - 1)
        /\ pc = "returned"
        /\ result = MsgCompleted

\* C2: with budget N and a reply in every round that is a non-empty batch
\* without done, the invocation ends after exactly N captures and N
\* completion requests with the budget-exhausted result.
C2_BudgetExhausted ==
    (pc = "returned" /\ doneFreeRounds = maxAttempts) =>
        /\ result = MsgBudget
        /\ captures = maxAttempts
        /\ completions = maxAttempts

\* C4: after a round whose reply is a non-empty batch without done, every
\* action of the batch was dispatched and the next round's history holds one
\* result for each of them.
C4_ResultsReachNextRound ==
    (DoneFree(delivered.content) /\ pc = "round_config") =>
        /\ dispatched = delivered.content.actions
        /\ Len(previousActionResults) >= Len(delivered.content.actions)

C7_CaptureRetryPolicy ==
    /\ gpdSent <= 5
    /\ \A i \in 1..Len(delays) : delays[i] = 1000
    /\ (pc \in CapturePositions \cup CompletionPositions) => gpdSent = gpdAttempt
    /\ (pc \in (CapturePositions \ {"cap_sleep"}) \cup CompletionPositions) =>
            Len(delays) = gpdAttempt - 1
    /\ (pc = "cap_sleep") => (Len(delays) = gpdAttempt /\ gpdAttempt < 5)
    /\ (caught = ErrCapture) => (gpdSent = 5 /\ Len(delays) = 4)

\* C7 witness: the 5th attempt of a capture in flight after four sleeps.
C7_Witness == pc = "cap_gpd" /\ gpdAttempt = 5 /\ Len(delays) = 4

\* C8: when the reply is text that is not JSON, the invocation returns in that
\* round with the raw text, dispatches nothing and leaves the round counter.
C8_PlainTextEndsLoop ==
    (delivered.content = PlainText) =>
        /\ pc = "returned"
        /\ result = MsgRawText
        /\ dispatched = <<>>

\* C9: the promise of getChatResponse never rejects.
C9_NeverRejects == pc # "rejected"

\* C10: a body that sendChatCompletion resolved with, carrying a non-empty
\* batch, is not handled as an error.
C10_SuccessIsNotAnError ==
    (delivered.content.kind = "batch" /\ Len(delivered.content.actions) > 0) =>
        caught = NoError

C14_EmptyBatchEndsLoop ==
    (delivered.content = BatchContent(<<>>)) =>
        /\ pc = "returned"
        /\ result = MsgNoMoreActions
        /\ dispatched = <<>>

\* C29: during an invocation at most one page-channel request is in flight
\* at a time: GET_PAGE_DATA and GET_SCROLL_INFO are sent one after the
\* other, each after the answer to the one before
C29_OneRequestInFlight ==
    /\ Len(inFlight) <= 1
    /\ (pc = "cap_gpd") <=> (inFlight = <<"GET_PAGE_DATA">>)
    /\ (pc = "cap_scroll") <=> (inFlight = <<"GET_SCROLL_INFO">>)

\* the second attempt of a capture has had its GET_PAGE_DATA answered and
\* awaits the answer to GET_SCROLL_INFO
C29_Witness ==
    /\ pc = "cap_scroll"
    /\ gpdSent = 2
    /\ inFlight = <<"GET_SCROLL_INFO">>

\* C30: the configuration is read once, at the start of the invocation, and
\* not again: after the entry's read no step awaits the configuration, the
\* budget stays what the entry read, and a completion request carries the
\* API key that passed the check, whatever the popup saves meanwhile
C30_ConfigFetchedOnce ==
    [][/\ (pc # "entry_config") => maxAttempts' = maxAttempts
       /\ (pc = "comp_config" /\ pc' = "comp_fetch") => config.apiKey
       /\ pc' \notin {"round_config", "comp_config"}]_vars

\* the budget of a running invocation stays what the entry read while the
\* popup saves another maxRounds
C30_BudgetIsFixedAtEntry ==
    [][(pc # "entry_config") => maxAttempts' = maxAttempts]_vars

\* C38: a successful reply whose first action is done ends the invocation with the
\* success result; the done action is not dispatched and adds no result to
\* the history.
C38_DoneIsPureSignal ==
    (delivered.ok /\ delivered.content.kind = "batch" /\ Len(delivered.content.actions) > 0
        /\ delivered.content.actions[1] = "done") =>
        /\ pc = "returned"
        /\ result = MsgCompleted
        /\ dispatched = <<>>
        /\ previousActionResults = <<>>

\* C39: a round whose configuration has no API key sends no capture
\* request and no completion request and dispatches no action; it throws
\* the error that names the API key, which starts the next round or, in the
\* last round, is the result of the invocation
C39_NoKeyNoRequests ==
    [][(pc = "round_config" /\ ~config.apiKey /\ config' = config /\ caught' # ErrConfigRead) =>
           /\ caught' = ErrApiKey
           /\ captures' = captures /\ gpdSent' = gpdSent /\ inFlight' = <<>>
           /\ completions' = completions
           /\ dispatched' = dispatched
           /\ IF attempt < maxAttempts
              THEN pc' = "round_config" /\ attempt' = attempt + 1
              ELSE pc' = "returned" /\ result' = ErrApiKey.message]_vars

\* an invocation without an API key has ended after two rounds, with the
\* error naming the API key and nothing sent
C39_Witness ==
    /\ pc = "returned"
    /\ attempt = 2
    /\ result = ErrApiKey.message
    /\ captures = 0 /\ completions = 0 /\ dispatched = <<>>

\* how far a position is from the end of its round: the awaits of a round in
\* the order the code reaches them, the awaits of a capture attempt once for
\* each attempt still to come
StepsLeftInRound ==
    CASE pc = "round_config" -> 5 * MaxCaptureAttempts + 5
      [] pc = "cap_tab" -> 5 * MaxCaptureAttempts + 4
      [] pc = "cap_gpd" -> 5 * (MaxCaptureAttempts - gpdAttempt) + 8
      [] pc = "cap_shot" -> 5 * (MaxCaptureAttempts - gpdAttempt) + 7
      [] pc = "cap_tabs" -> 5 * (MaxCaptureAttempts - gpdAttempt) + 6
      [] pc = "cap_scroll" -> 5 * (MaxCaptureAttempts - gpdAttempt) + 5
      [] pc = "cap_sleep" -> 5 * (MaxCaptureAttempts - gpdAttempt) + 4
      [] pc = "comp_config" -> 3
      [] pc = "comp_fetch" -> 2
      [] pc = "comp_json" -> 1
      [] OTHER -> 0

\* how many steps an invocation can still take: the rounds still to come,
\* each at its longest, and the rest of the round it is in
StepsLeft ==
    CASE pc = "idle" -> (MaxRoundsBound + 1) * (5 * MaxCaptureAttempts + 6) + 1
      [] pc = "entry_config" -> (MaxRoundsBound + 1) * (5 * MaxCaptureAttempts + 6)
      [] pc \in {"returned", "rejected"} -> 0
      [] OTHER -> (maxAttempts - attempt) * (5 * MaxCaptureAttempts + 6) + StepsLeftInRound

\* C32: every step of an invocation brings it nearer to its end, so that it
\* ends once its awaits settle; it runs at most maxAttempts rounds, sends at
\* most one completion request in a round and at most five GET_PAGE_DATA
\* requests in a capture, hence at most N and 5 * N of them for budget N
C32_InvocationIsBounded ==
    [][/\ (config' = config) => StepsLeft' < StepsLeft
       /\ StepsLeft' >= 0
       /\ (pc' \notin {"idle", "entry_config", "rejected"}) =>
              /\ attempt' >= 1 /\ attempt' <= maxAttempts'
              /\ captures' <= attempt'
              /\ completions' <= captures'
              /\ gpdSent' <= MaxCaptureAttempts]_vars

\* an invocation has ended after using its whole budget, with a completion
\* request in every round
C32_Witness ==
    /\ pc = "returned"
    /\ maxAttempts = MaxRoundsBound
    /\ attempt = maxAttempts
    /\ captures = maxAttempts
    /\ completions = maxAttempts

\* ============================================================ parseAction

\* most fields a parameter object of the model carries
MaxFields == 2
\* most top-level keys (or string characters, or array elements) of an input
MaxKeys == 2

\* JSON scalars, as their text, and typeof of what they decode to
JsonLiterals == {"7", "\"a\"", "null"}
TypeOf(lit) == IF lit = "null" THEN "null" ELSE IF lit = "7" THEN "number" ELSE "string"

\* the parameter names the schemas declare, and one that none declares
FieldNames == {"query", "url", "index", "xpath", "text", "page_id", "amount",
               "keys", "value", "extra"}

\* the value under a top-level key: an object of scalar fields, or a value
\* that is not an object
ObjectValue(fields) == [kind |-> "object", fields |-> fields]
ScalarValue(kind) == [kind |-> kind, fields |-> <<>>]
ParamObjects ==
    UNION {[d -> JsonLiterals] : d \in {fs \in SUBSET FieldNames : Cardinality(fs) <= MaxFields}}
ParamValues ==
    {ObjectValue(o) : o \in ParamObjects}
        \cup {ScalarValue(k) : k \in {"null", "number", "string", "array"}}

\* actionSchemas: for each action_name its z.object shape, as the declared
\* type of each required and each optional key, and whether it is passthrough
ActionSchema(name, required, optional, passthrough) ==
    [action_name |-> name, required |-> required, optional |-> optional,
     passthrough |-> passthrough]
actionSchemas ==
    << ActionSchema("search_google", "query" :> "string", <<>>, FALSE),
       ActionSchema("go_to_url", "url" :> "string", <<>>, FALSE),
       ActionSchema("click_element", "index" :> "number", "xpath" :> "string", FALSE),
       ActionSchema("input_text", "index" :> "number" @@ "text" :> "string",
                    "xpath" :> "string", FALSE),
       ActionSchema("done", "text" :> "string", <<>>, FALSE),
       ActionSchema("switch_tab", "page_id" :> "number", <<>>, FALSE),
       ActionSchema("open_tab", "url" :> "string", <<>>, FALSE),
       ActionSchema("scroll", <<>>, "amount" :> "number", FALSE),
       ActionSchema("send_keys", "keys" :> "string", <<>>, FALSE),
       ActionSchema("extract_content", "value" :> "string", <<>>, FALSE),
       ActionSchema("scroll_to_text", "text" :> "string", <<>>, FALSE),
       ActionSchema("get_dropdown_options", "index" :> "number", <<>>, FALSE),
       ActionSchema("select_dropdown_option", "index" :> "number" @@ "text" :> "string",
                    <<>>, FALSE),
       ActionSchema("no_params", <<>>, <<>>, TRUE) >>

\* the cataloged action names, and the top-level keys of the model's inputs:
\* every cataloged name and one that is not cataloged
ActionNames == {actionSchemas[i].action_name : i \in 1..Len(actionSchemas)}
KeyNames == ActionNames \cup {"fly_to_moon"}

\* Object.keys of a string or an array: its indices, as strings
IndexKeys == <<"0", "1", "2", "3">>

\* what JSON.parse(actionJson) decodes to: kind tells the JSON value, members
\* its own enumerable properties in Object.keys order.  "not json" is text
\* JSON.parse throws on
Member(key, value) == [key |-> key, value |-> value]
Decoded(kind, members) == [kind |-> kind, members |-> members]
\* the keys and values of the objects that have several keys
SampleKeys == {"click_element", "input_text", "done", "fly_to_moon"}
SampleValues == {ObjectValue(<<>>), ObjectValue("index" :> "7"), ScalarValue("null")}
OneKeyObjects ==
    {Decoded("object", <<Member(k, v)>>) : k \in KeyNames, v \in ParamValues}
ManyKeyObjects ==
    {Decoded("object", m) :
        m \in {ms \in UNION {[1..n -> [key : SampleKeys, value : SampleValues]] : n \in 2..MaxKeys} :
                 \A i, j \in 1..Len(ms) : i # j => ms[i].key # ms[j].key}}
IndexedValues ==
    {Decoded(kind, [i \in 1..n |-> Member(IndexKeys[i], ScalarValue("string"))]) :
        kind \in {"string", "array"}, n \in 0..MaxKeys}
ActionJsons ==
    {Decoded("not json", <<>>), Decoded("null", <<>>), Decoded("number", <<>>),
     Decoded("object", <<>>)}
        \cup OneKeyObjects \cup ManyKeyObjects \cup IndexedValues

\* what parseAction throws: the SyntaxError of JSON.parse, the TypeError of
\* Object.keys(null), its own two Errors, and the ZodError of schema.parse
Thrown(name, message) == [name |-> name, message |-> message]
NoThrown == Thrown("none", <<>>)
ErrSyntax == Thrown("SyntaxError", <<"Unexpected token">>)
ErrKeysOfNull == Thrown("TypeError", <<"Cannot convert undefined or null to object">>)
ErrOneKey == Thrown("Error", <<"Action must have exactly one key representing the action name">>)
ErrUnknownAction(actionName) == Thrown("Error", <<"Unknown action: ", actionName>>)
ErrZod == Thrown("ZodError", <<"the issues of schema.parse">>)

\* the Action { [actionName]: params }, and the two ways a call ends
Action(name, params) == [name |-> name, params |-> params]
NoAction == Action("none", <<>>)
Returned(action) == [threw |-> FALSE, error |-> NoThrown, action |-> action]
Threw(error) == [threw |-> TRUE, error |-> error, action |-> NoAction]

\* Object.keys(parsed)
ObjectKeys(parsed) == [i \in 1..Len(parsed.members) |-> parsed.members[i].key]

\* actionSchemas.find(a => a.action_name === actionName): the first match, or
\* undefined
FindSchema(actionName) ==
    LET hits == {i \in 1..Len(actionSchemas) : actionSchemas[i].action_name = actionName}
    IN  IF hits = {}
        THEN Undefined
        ELSE <<actionSchemas[CHOOSE i \in hits : \A j \in hits : i <= j]>>

\* whether schema.parse(value) succeeds: value is an object (not null, not an
\* array), every required key is present with its declared type, and every
\* optional key that is present has its declared type
SchemaAccepts(schema, value) ==
    /\ value.kind = "object"
    /\ \A f \in DOMAIN schema.required :
        f \in DOMAIN value.fields /\ TypeOf(value.fields[f]) = schema.required[f]
    /\ \A f \in DOMAIN schema.optional :
        f \in DOMAIN value.fields => TypeOf(value.fields[f]) = schema.optional[f]

\* what schema.parse(value) returns: the declared keys of value, and every
\* key of value when the schema is passthrough
SchemaOutput(schema, value) ==
    IF schema.passthrough
    THEN value.fields
    ELSE [f \in DOMAIN value.fields \cap (DOMAIN schema.required \cup DOMAIN schema.optional)
            |-> value.fields[f]]

\* parseAction taking the first key of an object that has several
parseAction_TakesFirstKey(actionJson) ==
    IF actionJson.kind = "not json"
    THEN Threw(ErrSyntax)
    ELSE IF actionJson.kind = "null"
    THEN Threw(ErrKeysOfNull)
    ELSE LET actionNames == ObjectKeys(actionJson)
         IN  IF Len(actionNames) = 0
             THEN Threw(ErrOneKey)
             ELSE LET actionName == actionNames[1]
                      actionSchema == FindSchema(actionName)
                      value == actionJson.members[1].value
                  IN  IF actionSchema = Undefined
                      THEN Threw(ErrUnknownAction(actionName))
                      ELSE IF ~SchemaAccepts(actionSchema[1], value)
                      THEN Threw(ErrZod)
                      ELSE Returned(Action(actionName, SchemaOutput(actionSchema[1], value)))

\* parseAction returning the value under the key without schema.parse
parseAction_SkipsSchema(actionJson) ==
    IF actionJson.kind = "not json"
    THEN Threw(ErrSyntax)
    ELSE IF actionJson.kind = "null"
    THEN Threw(ErrKeysOfNull)
    ELSE LET actionNames == ObjectKeys(actionJson)
         IN  IF Len(actionNames) # 1
             THEN Threw(ErrOneKey)
             ELSE LET actionName == actionNames[1]
                      actionSchema == FindSchema(actionName)
                      value == actionJson.members[1].value
                  IN  IF actionSchema = Undefined
                      THEN Threw(ErrUnknownAction(actionName))
                      ELSE Returned(Action(actionName, value.fields))

\* parseAction(actionJson)
parseAction(actionJson) ==
    IF actionJson.kind = "not json"
    THEN Threw(ErrSyntax)
    ELSE IF actionJson.kind = "null"
    THEN Threw(ErrKeysOfNull)
    ELSE LET actionNames == ObjectKeys(actionJson)
         IN  IF Len(actionNames) # 1
             THEN Threw(ErrOneKey)
             ELSE LET actionName == actionNames[1]
                      actionSchema == FindSchema(actionName)
                      value == actionJson.members[1].value
                  IN  IF actionSchema = Undefined
                      THEN Threw(ErrUnknownAction(actionName))
                      ELSE IF ~SchemaAccepts(actionSchema[1], value)
                      THEN Threw(ErrZod)
                      ELSE Returned(Action(actionName, SchemaOutput(actionSchema[1], value)))

\* the agent loop at rest while a function is examined on its own
LoopAtRest ==
    /\ config = [apiKey |-> FALSE, maxRounds |-> <<MaxRoundsBound>>]
    /\ LoopIdle

\* a call parseAction(actionJson) with any of the model's inputs
ParseInit ==
    /\ LoopAtRest
    /\ call \in {[fn |-> "parseAction", actionJson |-> j] : j \in ActionJsons}
    /\ upc = "called"
    /\ frame = NoFrame
    /\ ret = NoReturn
    /\ effects = <<>>

\* the call runs to its return or its throw
ParseActionEnds ==
    /\ upc = "called"
    /\ ret' = parseAction(call.actionJson)
    /\ upc' = "ended"
    /\ UNCHANGED <<call, frame, effects, loopVars>>

ParseNext == ParseActionEnds

ParseSpec == ParseInit /\ [][ParseNext]_vars

\* the failures of parseAction by the name the catalog's description gives them
InvalidFormat == Threw(ErrOneKey)
UnknownAction(key) == Threw(ErrUnknownAction(key))
SchemaViolation == Threw(ErrZod)

\* C19: for a decoded object with no top-level key or with more than one,
\* parseAction fails with InvalidFormat and yields no action, whether or not
\* the keys are cataloged; so it does for the keys click_element, input_text.
C19_KeyCountIsChecked ==
    (upc = "ended" /\ call.actionJson.kind = "object" /\ Len(call.actionJson.members) # 1) =>
        /\ ret = InvalidFormat
        /\ ret.action = NoAction

\* C19 witness: the object with the keys click_element and input_text, in
\* that order, was rejected.
C19_Witness ==
    /\ upc = "ended"
    /\ call.actionJson.kind = "object"
    /\ ObjectKeys(call.actionJson) = <<"click_element", "input_text">>
    /\ ret = InvalidFormat

\* C20: for a decoded object with one top-level key, parseAction fails with
\* UnknownAction when the key is not cataloged, with SchemaViolation when the
\* value does not fit the key's schema, and otherwise returns the one pair of
\* the key and the parameters the schema yields.  Two fixed inputs anchor the
\* schema: {"click_element": {"index": 7}} is returned as it is, and
\* {"click_element": {"index": "a"}} is a SchemaViolation.
C20_OneKeyIsClassified ==
    (upc = "ended" /\ call.actionJson.kind = "object" /\ Len(call.actionJson.members) = 1) =>
        LET key == call.actionJson.members[1].key
            value == call.actionJson.members[1].value
        IN  /\ IF key \notin ActionNames
               THEN ret = UnknownAction(key)
               ELSE IF ~SchemaAccepts(FindSchema(key)[1], value)
               THEN ret = SchemaViolation
               ELSE /\ ~ret.threw
                    /\ ret.action.name = key
                    /\ ret.action.params = SchemaOutput(FindSchema(key)[1], value)
                    /\ DOMAIN ret.action.params \subseteq DOMAIN value.fields
                    /\ \A f \in DOMAIN ret.action.params :
                        ret.action.params[f] = value.fields[f]
            /\ (key = "click_element" /\ value = ObjectValue("index" :> "7")) =>
                    ret = Returned(Action("click_element", "index" :> "7"))
            /\ (key = "click_element" /\ value = ObjectValue("index" :> "\"a\"")) =>
                    ret = SchemaViolation
            /\ (key = "input_text" /\ value = ObjectValue("index" :> "7")) =>
                    ret = SchemaViolation

\* C20 witness: one call of each of the three outcomes has ended; this one
\* returned the pair for input_text.
C20_Witness ==
    /\ upc = "ended"
    /\ ObjectKeys(call.actionJson) = <<"input_text">>
    /\ ret = Returned(Action("input_text", "index" :> "7" @@ "text" :> "\"a\""))

\* C21: every call of parseAction ends in a valid action, InvalidFormat,
\* UnknownAction or SchemaViolation, and in no other failure; a call that
\* returns an action returns one of a cataloged kind.
C21_ParseActionIsTotal ==
    (upc = "ended") =>
        \/ (~ret.threw /\ ret.action.name \in ActionNames)
        \/ ret = InvalidFormat
        \/ \E key \in KeyNames \cup {IndexKeys[i] : i \in 1..Len(IndexKeys)} :
                ret = UnknownAction(key)
        \/ ret = SchemaViolation

\* ========================================== executeAction (side panel)

\* the ActionResponse { success, message?, error? }
Success(message) == [success |-> TRUE, message |-> <<message>>, error |-> Undefined]
Failure(error) == [success |-> FALSE, message |-> Undefined, error |-> <<error>>]

\* String(error)
StringOf(error) == <<error.name, ": ">> \o error.message

\* what the collaborators of the executor throw or reject with
ErrNoActiveTabFound == Thrown("Error", <<"No active tab found">>)
ErrTabsApi == Thrown("Error", <<"the chrome.tabs call failed">>)
ErrChannel == Thrown("Error", <<"Could not establish connection. Receiving end does not exist.">>)

\* what the content script answers EXECUTE_ACTION with: the ActionResponse
\* its own executeAction returned
ContentResponses == {Success(<<"done in the page">>), Failure(<<"failed in the page">>)}

\* the action types the executor hands to the content script
InPageTypes == {"click_element", "input_text", "scroll", "send_keys", "extract_content",
                "scroll_to_text", "get_dropdown_options"}

\* the xpaths argument: a locator map from index to xpath
XpathMaps == {<<>>, "7" :> "//button[1]"}

\* the tabs of the window: getPageData sent GET_PAGE_DATA to the one that was
\* active when the round's capture started, getActiveTab finds the one that
\* is active when the action executes
TabIds == {"tab 1", "tab 2"}

\* the parameter objects of the catalog's examples, by their shape
ExampleParams ==
    {<<>>, "query" :> "\"a\"", "url" :> "\"a\"", "index" :> "7", "text" :> "\"a\"",
     "index" :> "7" @@ "text" :> "\"a\"", "page_id" :> "7", "amount" :> "7",
     "keys" :> "\"a\"", "value" :> "\"a\""}

\* the action texts executeAction is called with: every input of parseAction
\* that is not a one-key object, and each key with each example's parameters
\* or null
ExecJsons ==
    {j \in ActionJsons :
        (j.kind = "object" /\ Len(j.members) = 1) =>
            j.members[1].value \in {ObjectValue(o) : o \in ExampleParams} \cup {ScalarValue("null")}}

\* a call executeAction(actionJson, xpaths); capturedFrom is the tab whose
\* capture produced xpaths
ExecInit ==
    /\ LoopAtRest
    /\ call \in [fn : {"executeAction"}, actionJson : ExecJsons, xpaths : XpathMaps,
                 capturedFrom : TabIds]
    /\ upc = "called"
    /\ frame = [action |-> NoAction, last |-> "none", tab |-> Undefined]
    /\ ret = NoReturn
    /\ effects = <<>>

\* the promise of the call
Resolved(value) == [settled |-> "resolved", value |-> value]
Rejected(error) == [settled |-> "rejected", value |-> error]

\* the call resolves with value; last tells what its last await settled with
Ends(value, last) ==
    /\ ret' = Resolved(value)
    /\ upc' = "ended"
    /\ frame' = [frame EXCEPT !.last = last]
    /\ UNCHANGED effects

\* the call makes the collaborator call api and awaits it at position at
Awaits(api, at, last) ==
    /\ effects' = Append(effects, api)
    /\ upc' = at
    /\ frame' = [frame EXCEPT !.last = last]
    /\ UNCHANGED ret

\* executeInContentScript(tab.id, {type, params, xpaths}): the message goes
\* to the tab getActiveTab found
executeInContentScript(tab) ==
    /\ effects' = Append(effects, "tabs.sendMessage")
    /\ upc' = "send_message"
    /\ frame' = [frame EXCEPT !.last = "tab", !.tab = <<tab>>]
    /\ UNCHANGED ret

\* the switch of executeAction on the action type; tab is the active tab
RouteAction(action, tab) ==
    CASE action.name \in {"search_google", "go_to_url"} ->
            Awaits("tabs.query", "op_active_tab", "tab")
      [] action.name = "switch_tab" -> Awaits("tabs.query", "switch_query", "tab")
      [] action.name = "open_tab" -> Awaits("tabs.create", "tabs_create", "tab")
      [] action.name = "done" ->
            Ends(Success(<<"Action completed: ", action.params["text"]>>), "tab")
      [] action.name \in InPageTypes -> executeInContentScript(tab)
      [] OTHER -> Ends(Failure(<<"Unknown action type: ", action.name>>), "tab")

\* executeAction up to its first await: parseAction, whose throw the catch
\* turns into a result, then getActiveTab
executeAction ==
    /\ upc = "called"
    /\ LET parsed == parseAction(call.actionJson)
       IN  IF parsed.threw
           THEN Ends(Failure(StringOf(parsed.error)), "parse threw")
           ELSE /\ frame' = [action |-> parsed.action, last |-> "parsed", tab |-> Undefined]
                /\ effects' = Append(effects, "tabs.query")
                /\ upc' = "active_tab"
                /\ UNCHANGED ret
    /\ UNCHANGED <<call, loopVars>>

\* getActiveTab of executeAction settles: the query rejects, finds no tab
\* (getActiveTab throws), or finds the tab and the switch runs
ExecutorTabSettles ==
    /\ upc = "active_tab"
    /\ \E outcome \in {"rejects", "no tab", "tab"} :
        CASE outcome = "rejects" -> Ends(Failure(StringOf(ErrTabsApi)), "tabs rejected")
          [] outcome = "no tab" -> Ends(Failure(StringOf(ErrNoActiveTabFound)), "no tab")
          [] OTHER -> \E tab \in TabIds : RouteAction(frame.action, tab)
    /\ UNCHANGED <<call, loopVars>>

\* getActiveTab of executeSearchGoogle and executeGoToUrl settles
OperationTabSettles ==
    /\ upc = "op_active_tab"
    /\ \E outcome \in {"rejects", "no tab", "tab"} :
        CASE outcome = "rejects" -> Ends(Failure(StringOf(ErrTabsApi)), "tabs rejected")
          [] outcome = "no tab" -> Ends(Failure(StringOf(ErrNoActiveTabFound)), "no tab")
          [] OTHER -> Awaits("tabs.update", "tabs_update", "tab")
    /\ UNCHANGED <<call, loopVars>>

\* chrome.tabs.query({}) of executeSwitchTab settles
SwitchQuerySettles ==
    /\ upc = "switch_query"
    /\ \E outcome \in {"rejects", "no tab", "tab"} :
        CASE outcome = "rejects" -> Ends(Failure(StringOf(ErrTabsApi)), "tabs rejected")
          [] outcome = "no tab" -> Ends(Failure(<<"Tab not found">>), "tab not found")
          [] OTHER -> Awaits("tabs.update", "tabs_update", "tab")
    /\ UNCHANGED <<call, loopVars>>

\* chrome.tabs.update of a navigation, a search or a tab switch settles
TabsUpdateSettles ==
    /\ upc = "tabs_update"
    /\ \/ Ends(Failure(StringOf(ErrTabsApi)), "tabs rejected")
       \/ Ends(Success(CASE frame.action.name = "search_google" ->
                                <<"Searched Google for ", frame.action.params["query"]>>
                         [] frame.action.name = "go_to_url" ->
                                <<"Navigated to URL: ", frame.action.params["url"]>>
                         [] OTHER ->
                                <<"Switched to tab with ID ", frame.action.params["page_id"]>>),
               "tabs resolved")
    /\ UNCHANGED <<call, loopVars>>

\* chrome.tabs.create of executeOpenTab settles
TabsCreateSettles ==
    /\ upc = "tabs_create"
    /\ \/ Ends(Failure(StringOf(ErrTabsApi)), "tabs rejected")
       \/ Ends(Success(<<"Opened new tab with URL: ", frame.action.params["url"]>>),
               "tabs resolved")
    /\ UNCHANGED <<call, loopVars>>

\* SendMessageSettles without the catch of executeInContentScript
SendMessageSettles_Uncaught ==
    /\ upc = "send_message"
    /\ \/ /\ ret' = Rejected(ErrChannel)
          /\ upc' = "ended"
          /\ frame' = [frame EXCEPT !.last = "message rejected"]
          /\ UNCHANGED effects
       \/ \E response \in ContentResponses : Ends(response, "message answered")
    /\ UNCHANGED <<call, loopVars>>

\* chrome.tabs.sendMessage of executeInContentScript settles: a rejection is
\* caught and becomes a result, an answer is returned as it is
SendMessageSettles ==
    /\ upc = "send_message"
    /\ \/ Ends(Failure(ErrChannel.message), "message rejected")
       \/ \E response \in ContentResponses : Ends(response, "message answered")
    /\ UNCHANGED <<call, loopVars>>

ExecNext ==
    \/ executeAction
    \/ ExecutorTabSettles
    \/ OperationTabSettles
    \/ SwitchQuerySettles
    \/ TabsUpdateSettles
    \/ TabsCreateSettles
    \/ SendMessageSettles

ExecSpec == ExecInit /\ [][ExecNext]_vars

\* a value of the shape { success, message?, error? }
IsActionResult(v) ==
    /\ DOMAIN v = {"success", "message", "error"}
    /\ v.success \in BOOLEAN
    /\ Len(v.message) <= 1
    /\ Len(v.error) <= 1

\* C15: executeAction never rejects and resolves only with an ActionResult;
\* a parse failure, a missing active tab and a rejected page-channel message
\* each end it with {success: false, error}.
C15_UniformActionResult ==
    /\ ret.settled # "rejected"
    /\ (upc = "ended") =>
        /\ ret.settled = "resolved"
        /\ IsActionResult(ret.value)
        /\ (frame.last = "parse threw") =>
                ret.value = Failure(StringOf(parseAction(call.actionJson).error))
        /\ (frame.last = "no tab") => ret.value = Failure(StringOf(ErrNoActiveTabFound))
        /\ (frame.last \in {"message rejected", "tabs rejected"}) =>
                (~ret.value.success /\ Len(ret.value.error) = 1)
    /\ (upc # "ended") => ret = NoReturn

\* C15 witness: a click whose page-channel message was rejected has resolved
\* with a failure result.
C15_Witness ==
    /\ upc = "ended"
    /\ frame.action.name = "click_element"
    /\ frame.last = "message rejected"
    /\ ret = Resolved(Failure(ErrChannel.message))

\* the kinds the catalog's description routes to tab-level operations and to
\* the page-context channel
TabLevelKinds == {"go_to_url", "search_google", "switch_tab", "open_tab", "done"}
PageChannelKinds ==
    {"click_element", "input_text", "scroll", "send_keys", "extract_content",
     "scroll_to_text", "get_dropdown_options", "select_dropdown_option"}

\* C16: an action that parseAction accepted, executed with an active tab, is
\* routed to an operation: the page-channel kinds to chrome.tabs.sendMessage,
\* the tab-level kinds to no page message, and no cataloged kind to the
\* 'Unknown action type' result.
C16_EveryKindIsRouted ==
    (frame.last = "tab") =>
        /\ (frame.action.name \in PageChannelKinds) =>
                effects = <<"tabs.query", "tabs.sendMessage">>
        /\ (frame.action.name \in TabLevelKinds) =>
                (\A i \in 1..Len(effects) : effects[i] # "tabs.sendMessage")
        /\ (frame.action.name \in ActionNames /\ upc = "ended") =>
                ret.value # Failure(<<"Unknown action type: ", frame.action.name>>)

\* C37: an in-page action is sent to the tab from which the locator map it
\* carries was captured, whatever tab is active when it executes.
C37_SentToCapturedTab ==
    (frame.last = "tab" /\ frame.action.name \in InPageTypes) =>
        frame.tab = <<call.capturedFrom>>

\* ================================= findElement and the indexed page actions

\* largest index an action carries, and longest list querySelectorAll returns
MaxIndex == 2
MaxListed == 2

\* the elements of the page, one of each class the actions tell apart, and
\* the xpaths of a locator map
Elements == {"button", "input", "select"}
XPaths == {"//a", "//b"}

\* the page: elements is what querySelectorAll('button, a, input, textarea,
\* select, [role="button"]') returns, evaluate the first node of the snapshot
\* document.evaluate returns for an xpath (undefined for an empty snapshot)
ElementLists ==
    {l \in UNION {[1..n -> Elements] : n \in 0..MaxListed} :
        \A i, j \in 1..Len(l) : i # j => l[i] # l[j]}
Documents == [elements : ElementLists, evaluate : [XPaths -> {<<e>> : e \in Elements} \cup {Undefined}]]

\* the xpaths of an action: undefined, or a map from index to xpath
LocatorMaps == UNION {[d -> XPaths] : d \in SUBSET (0..MaxIndex)}
OptionalLocatorMaps == {<<m>> : m \in LocatorMaps} \cup {Undefined}

\* the action types that carry an index
IndexedTypes == {"click_element", "input_text", "get_dropdown_options"}

\* a call the page makes on the document or on an element
PageCall(op, on) == [op |-> op, on |-> on]

\* elements[index] || null
ElementAt(elements, index) ==
    IF index + 1 \in 1..Len(elements) THEN <<elements[index + 1]>> ELSE Undefined

\* what findElement returns, with the lookups it made
Found(element, calls) == [element |-> element, calls |-> calls]

\* findElement never consulting the locator map
findElement_PositionalOnly(index, xpaths, document) ==
    IF FALSE
    THEN LET mappedXPath == xpaths[1][index]
             element == document.evaluate[mappedXPath]
         IN  IF element # Undefined
             THEN Found(element, <<PageCall("evaluate", mappedXPath)>>)
             ELSE Found(ElementAt(document.elements, index),
                        <<PageCall("evaluate", mappedXPath),
                          PageCall("querySelectorAll", "interactive")>>)
    ELSE Found(ElementAt(document.elements, index), <<PageCall("querySelectorAll", "interactive")>>)

\* findElement taking the last listed element for an index past the list
findElement_ClampsIndex(index, xpaths, document) ==
    IF xpaths # Undefined /\ index \in DOMAIN xpaths[1]
    THEN LET mappedXPath == xpaths[1][index]
             element == document.evaluate[mappedXPath]
         IN  IF element # Undefined
             THEN Found(element, <<PageCall("evaluate", mappedXPath)>>)
             ELSE Found(ElementAt(document.elements, IF index < Len(document.elements) THEN index ELSE Len(document.elements) - 1),
                        <<PageCall("evaluate", mappedXPath),
                          PageCall("querySelectorAll", "interactive")>>)
    ELSE Found(ElementAt(document.elements, IF index < Len(document.elements) THEN index ELSE Len(document.elements) - 1), <<PageCall("querySelectorAll", "interactive")>>)

\* findElement(index, xpaths): the first match of the mapped xpath when the
\* map has the index and the xpath matches, else the listed element at index
findElement(index, xpaths, document) ==
    IF xpaths # Undefined /\ index \in DOMAIN xpaths[1]
    THEN LET mappedXPath == xpaths[1][index]
             element == document.evaluate[mappedXPath]
         IN  IF element # Undefined
             THEN Found(element, <<PageCall("evaluate", mappedXPath)>>)
             ELSE Found(ElementAt(document.elements, index),
                        <<PageCall("evaluate", mappedXPath),
                          PageCall("querySelectorAll", "interactive")>>)
    ELSE Found(ElementAt(document.elements, index), <<PageCall("querySelectorAll", "interactive")>>)

\* scrollIntoViewIfNeeded(element): a scroll when the element is outside the
\* viewport
ScrollIntoViewIfNeeded(element, isInViewport) ==
    IF isInViewport THEN <<>> ELSE <<PageCall("scrollIntoView", element)>>

\* an EXECUTE_ACTION of an indexed type handled against any page
PageInit ==
    /\ LoopAtRest
    /\ call \in [fn : {"executeAction"}, type : IndexedTypes, index : 0..MaxIndex,
                 xpaths : OptionalLocatorMaps, document : Documents]
    /\ upc = "called"
    /\ frame = [element |-> Undefined]
    /\ ret = NoReturn
    /\ effects = <<>>

\* the action's function has found no element it can act on
PageActionFails(found, error) ==
    /\ frame' = [element |-> found.element]
    /\ effects' = found.calls
    /\ ret' = Resolved(Failure(<<error>>))
    /\ upc' = "ended"

\* the action's function has acted on the element it found
PageActionActs(found, calls, message) ==
    /\ frame' = [element |-> found.element]
    /\ effects' = found.calls \o calls
    /\ ret' = Resolved(Success(<<message>>))
    /\ upc' = "ended"

\* executeClickElement
executeClickElement ==
    /\ upc = "called"
    /\ call.type = "click_element"
    /\ LET found == findElement(call.index, call.xpaths, call.document)
       IN  IF found.element = Undefined
           THEN PageActionFails(found, "Element not found")
           ELSE \E isInViewport \in BOOLEAN :
                    PageActionActs(found,
                                   ScrollIntoViewIfNeeded(found.element[1], isInViewport)
                                        \o <<PageCall("click", found.element[1])>>,
                                   "Clicked element at index")
    /\ UNCHANGED <<call, loopVars>>

\* executeInputText
executeInputText ==
    /\ upc = "called"
    /\ call.type = "input_text"
    /\ LET found == findElement(call.index, call.xpaths, call.document)
       IN  IF found.element = Undefined \/ found.element # <<"input">>
           THEN PageActionFails(found, "Input element not found")
           ELSE \E isInViewport \in BOOLEAN :
                    PageActionActs(found,
                                   ScrollIntoViewIfNeeded(found.element[1], isInViewport)
                                        \o <<PageCall("set value", found.element[1]),
                                             PageCall("dispatch input", found.element[1]),
                                             PageCall("dispatch change", found.element[1])>>,
                                   "Entered text into element at index")
    /\ UNCHANGED <<call, loopVars>>

\* executeGetDropdownOptions
executeGetDropdownOptions ==
    /\ upc = "called"
    /\ call.type = "get_dropdown_options"
    /\ LET found == findElement(call.index, call.xpaths, call.document)
       IN  IF found.element = Undefined \/ found.element # <<"select">>
           THEN PageActionFails(found, "Select element not found")
           ELSE PageActionActs(found, <<>>, "Retrieved dropdown options")
    /\ UNCHANGED <<call, loopVars>>

PageNext ==
    \/ executeClickElement
    \/ executeInputText
    \/ executeGetDropdownOptions

PageSpec == PageInit /\ [][PageNext]_vars

\* whether the action's locator map has an entry for its index, the element
\* that entry's xpath matches, and whether the positional lookup was made
HasEntry == call.xpaths # Undefined /\ call.index \in DOMAIN call.xpaths[1]
EntryMatch == call.document.evaluate[call.xpaths[1][call.index]]
PositionalUsed == \E i \in 1..Len(effects) : effects[i].op = "querySelectorAll"

\* C17 as stated: the positional lookup is used exactly when the locator map
\* has no entry for the index.
C17_PositionalOnlyWithoutEntry ==
    (upc = "ended") => (PositionalUsed <=> ~HasEntry)

\* C17 as amended: when the locator map has an entry for the index and its
\* xpath matches an element, that element is the target and the positional
\* lookup is not made; the positional lookup is made exactly when the map
\* has no entry for the index or the entry's xpath matches nothing, and then
\* the target is the listed element at the index, if any.
C17_XPathFirstThenPositional ==
    (upc = "ended") =>
        /\ (HasEntry /\ EntryMatch # Undefined) =>
                (frame.element = EntryMatch /\ ~PositionalUsed)
        /\ PositionalUsed <=> (~HasEntry \/ EntryMatch = Undefined)
        /\ PositionalUsed => frame.element = ElementAt(call.document.elements, call.index)
        /\ \A i \in 1..Len(effects) :
                effects[i].op \notin {"evaluate", "querySelectorAll"} =>
                    <<effects[i].on>> = frame.element

\* C17 witness: a click that went to the element the mapped xpath matches
\* while the list holds another element at that index.
C17_Witness ==
    /\ upc = "ended"
    /\ call.type = "click_element"
    /\ HasEntry
    /\ EntryMatch = <<"button">>
    /\ ElementAt(call.document.elements, call.index) = <<"input">>
    /\ effects[Len(effects)] = PageCall("click", "button")

\* C18: click_element with an index that the locator map lacks and that is
\* not below the length of the list resolves with {success: false, error:
\* 'Element not found'}, and nothing is clicked or scrolled.
C18_MissingElementIsReported ==
    (upc = "ended" /\ call.type = "click_element" /\ ~HasEntry
        /\ call.index >= Len(call.document.elements)) =>
        /\ ret = Resolved(Failure(<<"Element not found">>))
        /\ \A i \in 1..Len(effects) : effects[i].op \notin {"click", "scrollIntoView"}

\* C18 witness: such a click against a page that lists one element, with a
\* locator map that has other entries.
C18_Witness ==
    /\ upc = "ended"
    /\ call.type = "click_element"
    /\ call.xpaths # Undefined
    /\ DOMAIN call.xpaths[1] = {0}
    /\ call.index = 1
    /\ Len(call.document.elements) = 1
    /\ ret = Resolved(Failure(<<"Element not found">>))

\* ======================== convertToDOMNode, clickableElementsToString, getXPaths

\* most child ids the root of a raw map lists
MaxChildren == 2
\* the depth of calls at which the engine throws a RangeError
StackLimit == 6
\* most calls of clickableElementsToString on one tree
MaxCalls == 2

\* a raw node of the capture's map (types.ts DOMNode): a text node, or an
\* element, whose highlightIndex is absent unless the capture indexed it
RawText(text, isVisible) ==
    [type |-> "TEXT_NODE", text |-> text, tagName |-> "", xpath |-> "",
     isVisible |-> isVisible, isInteractive |-> FALSE, highlightIndex |-> Undefined,
     children |-> <<>>]
RawElement(tagName, xpath, isVisible, isInteractive, highlightIndex, children) ==
    [type |-> "ELEMENT", text |-> "", tagName |-> tagName, xpath |-> xpath,
     isVisible |-> isVisible, isInteractive |-> isInteractive,
     highlightIndex |-> highlightIndex, children |-> children]

\* what the capture found an element to be: plain, hidden, or indexed (then
\* visible and interactive) with the given index
ElementProfiles(index) ==
    {[isVisible |-> TRUE, isInteractive |-> FALSE, highlightIndex |-> Undefined],
     [isVisible |-> FALSE, isInteractive |-> FALSE, highlightIndex |-> Undefined],
     [isVisible |-> TRUE, isInteractive |-> TRUE, highlightIndex |-> <<index>>]}
Profiled(tagName, xpath, profile, children) ==
    RawElement(tagName, xpath, profile.isVisible, profile.isInteractive,
               profile.highlightIndex, children)

\* the child-id lists of the raw maps: the root r lists up to MaxChildren of
\* a, b and an id x that the map lacks; a lists its text, b, or its ancestor
\* r; b lists its text or a
SeqsUpTo(ids, n) == UNION {[1..k -> ids] : k \in 0..n}
RootChildren == SeqsUpTo({"a", "b", "x"}, MaxChildren)
ButtonChildren == {<<>>, <<"t1">>, <<"t1", "b">>, <<"b", "t1">>, <<"t1", "x">>, <<"r">>}
SpanChildren == {<<>>, <<"t2">>, <<"a">>}

\* the raw maps: a div r, with an xpath or none, a button a, a span b and
\* two text nodes
RawMap(rx, rc, ac, bc, ap, bp, t1, t2) ==
    [id \in {"r", "a", "b", "t1", "t2"} |->
        CASE id = "r" -> RawElement("div", rx, TRUE, FALSE, Undefined, rc)
          [] id = "a" -> Profiled("button", "/div/button", ap, ac)
          [] id = "b" -> Profiled("span", "/div/span", bp, bc)
          [] id = "t1" -> t1
          [] OTHER -> t2]
RawMaps ==
    {RawMap(rx, rc, ac, bc, ap, bp, t1, t2) :
        rx \in {"", "/div"}, rc \in RootChildren, ac \in ButtonChildren, bc \in SpanChildren,
        ap \in ElementProfiles(0),
        bp \in {q \in ElementProfiles(1) : q.isVisible},
        t1 \in {RawText("Go", TRUE), RawText(" Go ", TRUE), RawText("Go", FALSE)},
        t2 \in {RawText("hi", TRUE), RawText("  ", TRUE)}}

\* the nodes of view.ts, held in a heap: a node is its place in the heap,
\* parent is the place of the parent or undefined for null, children the
\* places of the children in order
DOMTextNode(text, isVisible, parent) ==
    [kind |-> "text", text |-> text, tagName |-> "", xpath |-> "",
     isVisible |-> isVisible, isInteractive |-> FALSE, highlightIndex |-> Undefined,
     parent |-> parent, children |-> <<>>]
DOMElementNode(node, parent) ==
    [kind |-> "element", text |-> "", tagName |-> node.tagName, xpath |-> node.xpath,
     isVisible |-> node.isVisible, isInteractive |-> node.isInteractive,
     highlightIndex |-> node.highlightIndex, parent |-> parent, children |-> <<>>]

\* what a call of convertToDOMNode leaves: the heap, the node it returned
\* (undefined for null), and whether it threw the RangeError of the stack
Converted(heap, ref, threw) == [heap |-> heap, ref |-> ref, threw |-> threw]
Mapped(heap, refs, threw) == [heap |-> heap, refs |-> refs, threw |-> threw]

RECURSIVE convertToDOMNode_ReversesChildren(_, _, _, _, _)
RECURSIVE convertToDOMNode(_, _, _, _, _)
RECURSIVE ConvertChildren(_, _, _, _, _, _)

\* ConvertChildren handing each child the element's own parent as its parent
ConvertChildren_PassesOwnParent(childIds, i, map, elementNode, heap, depth) ==
    IF i > Len(childIds)
    THEN Mapped(heap, <<>>, FALSE)
    ELSE LET convertedChild == convertToDOMNode(childIds[i], map, heap[elementNode].parent,
                                                heap, depth)
         IN  IF convertedChild.threw
             THEN Mapped(convertedChild.heap, <<>>, TRUE)
             ELSE LET rest == ConvertChildren(childIds, i + 1, map, elementNode,
                                              convertedChild.heap, depth)
                  IN  IF rest.threw
                      THEN rest
                      ELSE Mapped(rest.heap, convertedChild.ref \o rest.refs, FALSE)

\* node.children.map(childId => convertToDOMNode(childId, map, elementNode))
\* .filter(Boolean), from the i-th child id on
ConvertChildren(childIds, i, map, elementNode, heap, depth) ==
    IF i > Len(childIds)
    THEN Mapped(heap, <<>>, FALSE)
    ELSE LET convertedChild == convertToDOMNode(childIds[i], map, <<elementNode>>, heap, depth)
         IN  IF convertedChild.threw
             THEN Mapped(convertedChild.heap, <<>>, TRUE)
             ELSE LET rest == ConvertChildren(childIds, i + 1, map, elementNode,
                                              convertedChild.heap, depth)
                  IN  IF rest.threw
                      THEN rest
                      ELSE Mapped(rest.heap, convertedChild.ref \o rest.refs, FALSE)

\* the reverse of a sequence
Reversed(q) == [i \in 1..Len(q) |-> q[Len(q) + 1 - i]]

\* convertToDOMNode storing the converted children in reverse
convertToDOMNode_ReversesChildren(nodeId, map, parent, heap, depth) ==
    IF depth > StackLimit
    THEN Converted(heap, Undefined, TRUE)
    ELSE IF nodeId \notin DOMAIN map
    THEN Converted(heap, Undefined, FALSE)
    ELSE LET node == map[nodeId]
         IN  IF node.type = "TEXT_NODE" /\ node.text # ""
             THEN Converted(Append(heap, DOMTextNode(node.text, node.isVisible, parent)),
                            <<Len(heap) + 1>>, FALSE)
             ELSE LET elementNode == Len(heap) + 1
                      created == Append(heap, DOMElementNode(node, parent))
                      convertedChildren ==
                          ConvertChildren(node.children, 1, map, elementNode, created, depth + 1)
                  IN  IF convertedChildren.threw
                      THEN Converted(convertedChildren.heap, Undefined, TRUE)
                      ELSE Converted([convertedChildren.heap EXCEPT
                                          ![elementNode].children = Reversed(convertedChildren.refs)],
                                     <<elementNode>>, FALSE)

\* convertToDOMNode(nodeId, map, parent), called at the given depth with the
\* nodes created so far
convertToDOMNode(nodeId, map, parent, heap, depth) ==
    IF depth > StackLimit
    THEN Converted(heap, Undefined, TRUE)
    ELSE IF nodeId \notin DOMAIN map
    THEN Converted(heap, Undefined, FALSE)
    ELSE LET node == map[nodeId]
         IN  IF node.type = "TEXT_NODE" /\ node.text # ""
             THEN Converted(Append(heap, DOMTextNode(node.text, node.isVisible, parent)),
                            <<Len(heap) + 1>>, FALSE)
             ELSE LET elementNode == Len(heap) + 1
                      created == Append(heap, DOMElementNode(node, parent))
                      convertedChildren ==
                          ConvertChildren(node.children, 1, map, elementNode, created, depth + 1)
                  IN  IF convertedChildren.threw
                      THEN Converted(convertedChildren.heap, Undefined, TRUE)
                      ELSE Converted([convertedChildren.heap EXCEPT
                                          ![elementNode].children = convertedChildren.refs],
                                     <<elementNode>>, FALSE)

\* text.trim(), for the texts of the raw maps
Trim(text) ==
    CASE text = " Go " -> "Go"
      [] text = "  " -> ""
      [] OTHER -> text

\* highlightIndex.toString(), and `${highlightIndex}`
IndexToString(highlightIndex) == IndexKeys[highlightIndex + 1]

\* parts.join(separator), a text being the sequence of its pieces
RECURSIVE Join(_, _)
Join(parts, separator) ==
    IF parts = <<>> THEN <<>>
    ELSE IF Len(parts) = 1 THEN parts[1]
    ELSE parts[1] \o <<separator>> \o Join(Tail(parts), separator)

\* DOMTextNode.hasParentWithHighlightIndex: some ancestor has an index
RECURSIVE HasIndexFrom(_, _)
HasIndexFrom(heap, current) ==
    IF current = Undefined THEN FALSE
    ELSE IF heap[current[1]].highlightIndex # Undefined THEN TRUE
    ELSE HasIndexFrom(heap, heap[current[1]].parent)
\* hasParentWithHighlightIndex looking at the parent only
hasParentWithHighlightIndex_ParentOnly(heap, node) ==
    heap[node].parent # Undefined /\ heap[heap[node].parent[1]].highlightIndex # Undefined
hasParentWithHighlightIndex(heap, node) == HasIndexFrom(heap, heap[node].parent)

\* the texts getAllTextTillNextClickableElement gathers
RECURSIVE collectText_StopsNowhere(_, _, _)
RECURSIVE collectText(_, _, _)
RECURSIVE CollectChildren(_, _, _, _)

\* for (const child of node.children) collectText(child), from the i-th on
CollectChildren(heap, self, children, i) ==
    IF i > Len(children) THEN <<>>
    ELSE collectText(heap, self, children[i]) \o CollectChildren(heap, self, children, i + 1)

\* collectText going into indexed descendants as well
collectText_StopsNowhere(heap, self, node) ==
    LET n == heap[node]
    IN  IF n.kind = "text"
        THEN IF n.isVisible /\ Trim(n.text) # "" THEN <<Trim(n.text)>> ELSE <<>>
        ELSE IF FALSE /\ node # self /\ n.highlightIndex # Undefined
        THEN <<>>
        ELSE CollectChildren(heap, self, n.children, 1)

\* collectText of getAllTextTillNextClickableElement: the trimmed texts the
\* call on self pushes while it visits node
collectText(heap, self, node) ==
    LET n == heap[node]
    IN  IF n.kind = "text"
        THEN IF n.isVisible /\ Trim(n.text) # "" THEN <<Trim(n.text)>> ELSE <<>>
        ELSE IF node # self /\ n.highlightIndex # Undefined
        THEN <<>>
        ELSE CollectChildren(heap, self, n.children, 1)

\* DOMElementNode.getAllTextTillNextClickableElement(), maxDepth left at -1
getAllTextTillNextClickableElement(heap, self) ==
    Join([i \in 1..Len(collectText(heap, self, self)) |-> <<collectText(heap, self, self)[i]>>],
         " ")

\* `[${highlightIndex}]<${tagName}>${textContent.trim()}</${tagName}>`; the
\* joined text has no outer blanks to trim
ElementLine(highlightIndex, tagName, textContent) ==
    <<"[", IndexToString(highlightIndex), "]<", tagName, ">">> \o textContent \o <<"</", tagName, ">">>
\* `[]${node.text.trim()}`
TextLine(text) == <<"[]", text>>

RECURSIVE processNode_ChildrenFirst(_, _)
RECURSIVE processNode(_, _)
RECURSIVE ProcessChildren(_, _, _)

\* for (const child of node.children) processNode(child), from the i-th on
ProcessChildren(heap, children, i) ==
    IF i > Len(children) THEN <<>>
    ELSE processNode(heap, children[i]) \o ProcessChildren(heap, children, i + 1)

\* processNode visiting the children in reverse
processNode_ChildrenFirst(heap, node) ==
    LET n == heap[node]
    IN  IF n.kind = "element"
        THEN (IF n.highlightIndex # Undefined /\ n.isInteractive /\ n.isVisible
              THEN <<ElementLine(n.highlightIndex[1], n.tagName,
                                 getAllTextTillNextClickableElement(heap, node))>>
              ELSE <<>>)
             \o ProcessChildren(heap, Reversed(n.children), 1)
        ELSE IF ~hasParentWithHighlightIndex(heap, node) /\ n.isVisible /\ Trim(n.text) # ""
        THEN <<TextLine(Trim(n.text))>>
        ELSE <<>>

\* processNode of clickableElementsToString: the lines it pushes for node
processNode(heap, node) ==
    LET n == heap[node]
    IN  IF n.kind = "element"
        THEN (IF n.highlightIndex # Undefined /\ n.isInteractive /\ n.isVisible
              THEN <<ElementLine(n.highlightIndex[1], n.tagName,
                                 getAllTextTillNextClickableElement(heap, node))>>
              ELSE <<>>)
             \o ProcessChildren(heap, n.children, 1)
        ELSE IF ~hasParentWithHighlightIndex(heap, node) /\ n.isVisible /\ Trim(n.text) # ""
        THEN <<TextLine(Trim(n.text))>>
        ELSE <<>>

\* DOMElementNode.clickableElementsToString(), includeAttributes left empty
formattedText(heap, root) == processNode(heap, root)
clickableElementsToString(heap, root) == Join(formattedText(heap, root), "\n")

\* what a call of clickableElementsToString leaves: the lines it pushed, and
\* the text it returned
Serialized(lines, returned) == [formattedText |-> lines, returned |-> returned]

\* what getXPaths has gathered: the entries <<key, xpath>> of the object, and
\* whether it threw
Gathered(xpaths, threw) == [xpaths |-> xpaths, threw |-> threw]
\* xpaths[key] = xpath
Assigned(xpaths, key, xpath) == {e \in xpaths : e[1] # key} \cup {<<key, xpath>>}

RECURSIVE traverse(_, _, _, _)
RECURSIVE TraverseChildren(_, _, _, _, _)

\* node.children.forEach(childId => traverse(childId)), from the i-th on
TraverseChildren(childIds, i, map, xpaths, depth) ==
    IF i > Len(childIds) THEN Gathered(xpaths, FALSE)
    ELSE LET first == traverse(childIds[i], map, xpaths, depth)
         IN  IF first.threw THEN first
             ELSE TraverseChildren(childIds, i + 1, map, first.xpaths, depth)

\* traverse(nodeId) of getXPaths.  highlightIndex !== null holds for an absent
\* index too, and toString() of it throws a TypeError
traverse(nodeId, map, xpaths, depth) ==
    IF depth > StackLimit THEN Gathered(xpaths, TRUE)
    ELSE IF nodeId \notin DOMAIN map THEN Gathered(xpaths, FALSE)
    ELSE LET node == map[nodeId]
         IN  IF node.xpath # "" /\ node.tagName # ""
             THEN IF node.highlightIndex = Undefined
                  THEN Gathered(xpaths, TRUE)
                  ELSE TraverseChildren(node.children, 1, map,
                           Assigned(xpaths, IndexToString(node.highlightIndex[1]), node.xpath),
                           depth + 1)
             ELSE TraverseChildren(node.children, 1, map, xpaths, depth + 1)

\* getXPaths(result)
getXPaths(capture) == traverse(capture.rootId, capture.map, {}, 1)

\* the capture of the specification's example: a div holding a button,
\* indexed 0, with the text Go and a span with the text hi
ExampleMap ==
    RawMap("", <<"a", "b">>, <<"t1">>, <<"t2">>,
           [isVisible |-> TRUE, isInteractive |-> TRUE, highlightIndex |-> <<0>>],
           [isVisible |-> TRUE, isInteractive |-> FALSE, highlightIndex |-> Undefined],
           RawText("Go", TRUE), RawText("hi", TRUE))

\* what buildDomTree hands to getPageStructuredData: a root id and a map; the
\* root is r, or with the example's map an id the map lacks or a text node
Captures ==
    {[rootId |-> "r", map |-> m] : m \in RawMaps}
        \cup {[rootId |-> id, map |-> ExampleMap] : id \in {"x", "t1"}}

\* a call of getPageStructuredData on a capture
TreeInit ==
    /\ LoopAtRest
    /\ call \in {[fn |-> "getPageStructuredData", capture |-> c] : c \in Captures}
    /\ upc = "called"
    /\ frame = [heap |-> <<>>, convertedRoot |-> Undefined]
    /\ ret = NoReturn
    /\ effects = <<>>

\* the page data the promise resolves with; xpaths is undefined where the
\* object has no such key
PageData(clickableElements, xpaths) ==
    [settled |-> "resolved", clickableElements |-> clickableElements, xpaths |-> xpaths]
ErrRange == [settled |-> "rejected", error |-> Thrown("RangeError", "Maximum call stack size exceeded")]

\* getPageStructuredData up to the converted root: it returns page data
\* without elements when there is no element root, and rejects when the
\* conversion overflows the stack
getPageStructuredData ==
    /\ upc = "called"
    /\ LET converted == convertToDOMNode(call.capture.rootId, call.capture.map, Undefined, <<>>, 1)
       IN  IF converted.threw
           THEN /\ upc' = "threw"
                /\ ret' = ErrRange
                /\ frame' = frame
           ELSE IF converted.ref = Undefined \/ converted.heap[converted.ref[1]].kind # "element"
           THEN /\ upc' = "returned"
                /\ ret' = PageData(<<>>, Undefined)
                /\ frame' = [heap |-> converted.heap, convertedRoot |-> converted.ref]
           ELSE /\ upc' = "converted"
                /\ ret' = ret
                /\ frame' = [heap |-> converted.heap, convertedRoot |-> converted.ref]
    /\ UNCHANGED <<call, effects, loopVars>>

\* a serializer that empties the root's children once it has read them
SerializeClickable_ConsumesTree ==
    /\ upc \in {"converted", "serialized"}
    /\ Len(effects) < MaxCalls
    /\ effects' = Append(effects, Serialized(formattedText(frame.heap, frame.convertedRoot[1]),
                                              clickableElementsToString(frame.heap,
                                                                        frame.convertedRoot[1])))
    /\ frame' = [frame EXCEPT !.heap[frame.convertedRoot[1]].children = <<>>]
    /\ upc' = "serialized"
    /\ UNCHANGED <<call, ret, loopVars>>

\* convertedRoot.clickableElementsToString(), which getPageStructuredData
\* calls once and a caller holding the tree may call again
SerializeClickable ==
    /\ upc \in {"converted", "serialized"}
    /\ Len(effects) < MaxCalls
    /\ effects' = Append(effects, Serialized(formattedText(frame.heap, frame.convertedRoot[1]),
                                              clickableElementsToString(frame.heap,
                                                                        frame.convertedRoot[1])))
    /\ upc' = "serialized"
    /\ UNCHANGED <<call, frame, ret, loopVars>>

\* the end of getPageStructuredData: the locator map of getXPaths, or an
\* empty one when getXPaths throws
ReturnPageData ==
    /\ upc = "serialized"
    /\ LET xpaths == getXPaths(call.capture)
       IN  ret' = PageData(effects[1].returned, IF xpaths.threw THEN <<{}>> ELSE <<xpaths.xpaths>>)
    /\ upc' = "returned"
    /\ UNCHANGED <<call, frame, effects, loopVars>>

TreeNext ==
    \/ getPageStructuredData
    \/ SerializeClickable
    \/ ReturnPageData

TreeSpec == TreeInit /\ [][TreeNext]_vars

\* ------------------------------------------------------------ the serializer

\* the nodes below a node, by the children lists alone
RECURSIVE Descendants(_, _)
Descendants(heap, node) ==
    UNION {{child} \cup Descendants(heap, child) :
              child \in {heap[node].children[i] : i \in 1..Len(heap[node].children)}}
\* the nodes a node is below
AncestorsOf(heap, node) == {a \in 1..Len(heap) : node \in Descendants(heap, a)}

\* an element with an index that is interactive and visible
IsIndexedElement(n) ==
    n.kind = "element" /\ n.highlightIndex # Undefined /\ n.isInteractive /\ n.isVisible
\* a text node with text left after trimming, visible, and below no element
\* that has an index
IsStandaloneText(heap, node) ==
    /\ heap[node].kind = "text"
    /\ heap[node].isVisible
    /\ Trim(heap[node].text) # ""
    /\ \A a \in AncestorsOf(heap, node) : heap[a].highlightIndex = Undefined

\* the nodes that get a line, in document order: convertToDOMNode creates a
\* node before its children and the children in order
RECURSIVE LineNodes(_, _)
LineNodes(heap, from) ==
    IF from > Len(heap) THEN <<>>
    ELSE (IF IsIndexedElement(heap[from]) \/ IsStandaloneText(heap, from)
          THEN <<from>> ELSE <<>>) \o LineNodes(heap, from + 1)

\* a line has the form [index]<tag>text</tag> for the element
HasElementForm(line, n) ==
    /\ Len(line) >= 8
    /\ SubSeq(line, 1, 5) = <<"[", IndexToString(n.highlightIndex[1]), "]<", n.tagName, ">">>
    /\ SubSeq(line, Len(line) - 2, Len(line)) = <<"</", n.tagName, ">">>

\* the text the specification's example gives
ExampleOutput == <<"[", "0", "]<", "button", ">", "Go", "</", "button", ">", "\n", "[]", "hi">>

\* C22: the serializer pushes one line [index]<tag>text</tag> for every
\* element that is indexed, interactive and visible, one line []text for
\* every standalone text node, no other line, all in document order; and
\* the example capture serializes to [0]<button>Go</button>, newline, []hi
C22_LinesInDocumentOrder ==
    \A k \in 1..Len(effects) :
        LET lines == effects[k].formattedText
            nodes == LineNodes(frame.heap, 1)
        IN  /\ Len(lines) = Len(nodes)
            /\ \A i \in 1..Len(nodes) :
                   LET n == frame.heap[nodes[i]]
                   IN  IF n.kind = "element"
                       THEN HasElementForm(lines[i], n)
                       ELSE lines[i] = <<"[]", Trim(n.text)>>
            /\ effects[k].returned = Join(lines, "\n")
            /\ (call.capture = [rootId |-> "r", map |-> ExampleMap]) =>
                   effects[k].returned = ExampleOutput

\* the example capture has been serialized
C22_Witness ==
    /\ upc = "serialized"
    /\ call.capture = [rootId |-> "r", map |-> ExampleMap]
    /\ effects[1].returned = ExampleOutput

\* the text between <tag> and </tag> of an element's line
InnerText(line) == SubSeq(line, 6, Len(line) - 3)

\* the visible text nodes below self with text left after trimming, from the
\* given place on in document order, that are among the counted
RECURSIVE TextsBelow(_, _, _, _)
TextsBelow(heap, self, from, counted) ==
    IF from > Len(heap) THEN <<>>
    ELSE (IF /\ from \in Descendants(heap, self)
             /\ heap[from].kind = "text"
             /\ heap[from].isVisible
             /\ Trim(heap[from].text) # ""
             /\ from \in counted
          THEN <<(<<Trim(heap[from].text)>>)>> ELSE <<>>)
         \o TextsBelow(heap, self, from + 1, counted)

\* the elements below self that have an index
IndexedBelow(heap, self) ==
    {d \in Descendants(heap, self) :
        heap[d].kind = "element" /\ heap[d].highlightIndex # Undefined}

StandaloneLines(lines) == SelectSeq(lines, LAMBDA line : line[1] = "[]")

\* the lines []text of the text nodes among the counted, from the given
\* place on in document order
RECURSIVE TextLinesOf(_, _, _)
TextLinesOf(heap, from, counted) ==
    IF from > Len(heap) THEN <<>>
    ELSE (IF from \in counted THEN <<(<<"[]", Trim(heap[from].text)>>)>> ELSE <<>>)
         \o TextLinesOf(heap, from + 1, counted)

\* the visible text nodes below no element that has an index
UnownedVisibleTexts(heap) ==
    {t \in 1..Len(heap) :
        /\ heap[t].kind = "text"
        /\ heap[t].isVisible
        /\ \A a \in AncestorsOf(heap, t) : heap[a].highlightIndex = Undefined}

\* C24 as stated: a text node gets a line of its own exactly when it is
\* visible and none of its ancestors has an index
C24_LineIffVisibleAndUnowned ==
    \A k \in 1..Len(effects) :
        StandaloneLines(effects[k].formattedText)
            = TextLinesOf(frame.heap, 1, UnownedVisibleTexts(frame.heap))

\* C24: a text node gets a line of its own exactly when it is visible, has
\* text left after trimming, and none of its ancestors has an index; so the
\* visible text below an element without an index, and below no indexed
\* ancestor, gets its line unless it is blank
C24_LineIffVisibleNotBlankAndUnowned ==
    \A k \in 1..Len(effects) :
        StandaloneLines(effects[k].formattedText)
            = TextLinesOf(frame.heap, 1,
                          {t \in UnownedVisibleTexts(frame.heap) : Trim(frame.heap[t].text) # ""})

\* a tree has been serialized in which a text below an element without an
\* index got its line and a blank visible text below such an element none
C24_Witness ==
    /\ upc = "serialized"
    /\ \E t \in UnownedVisibleTexts(frame.heap) :
           /\ Trim(frame.heap[t].text) = "Go"
           /\ frame.heap[t].parent # frame.convertedRoot
           /\ StandaloneLines(effects[1].formattedText) = <<(<<"[]", "Go">>)>>
    /\ \E t \in UnownedVisibleTexts(frame.heap) : Trim(frame.heap[t].text) = ""

RawIdOf(map, n) == CHOOSE id \in DOMAIN map : map[id].tagName = n.tagName /\ map[id].text = n.text

\* the conversion has returned a tree
HasTree == upc \in {"converted", "serialized", "returned"} /\ frame.convertedRoot # Undefined

\* C26: the children of a converted element are the conversions of the child
\* ids its raw node lists that are in the map, in the order listed; an id
\* the map lacks leaves no child
C26_PresentChildrenInOrder ==
    HasTree =>
        \A e \in 1..Len(frame.heap) :
            (frame.heap[e].kind = "element") =>
                LET map == call.capture.map
                    listed == map[RawIdOf(map, frame.heap[e])].children
                    children == frame.heap[e].children
                IN  [i \in 1..Len(children) |-> RawIdOf(map, frame.heap[children[i]])]
                        = SelectSeq(listed, LAMBDA id : id \in DOMAIN map)

\* a capture whose root lists a missing id and then a, and whose a lists its
\* text and then b, has been converted
C26_Witness ==
    /\ upc = "converted"
    /\ call.capture.map["r"].children = <<"x", "a">>
    /\ call.capture.map["a"].children = <<"t1", "b">>
    /\ Len(frame.heap[frame.convertedRoot[1]].children) = 1
    /\ Len(frame.heap[frame.heap[frame.convertedRoot[1]].children[1]].children) = 2

\* C27: for every raw map, one with a child id naming an ancestor or one id
\* under two parents included, convertToDOMNode ends and returns a tree
C27_ConversionAlwaysReturns ==
    upc # "threw"

\* an id listed under two parents has been converted, once for each parent
C27_SharedIdConvertedTwice ==
    /\ upc = "converted"
    /\ call.capture.map["r"].children = <<"a", "b">>
    /\ call.capture.map["b"].children = <<"a">>
    /\ Cardinality({n \in 1..Len(frame.heap) : frame.heap[n].tagName = "button"}) = 2

\* ---------------------------------------------------------- the locator map

\* C28: the locator map getPageStructuredData returns has only the indices
\* of the capture as keys and has the xpath of every reachable element that
\* has an index and an xpath; an element without an index adds no key and
\* does not cost the map its entries
C28_LocatorMapIsComplete ==
    (upc = "returned" /\ ret.xpaths # Undefined) =>
        LET indexed == {n \in 1..Len(frame.heap) :
                           /\ frame.heap[n].kind = "element"
                           /\ frame.heap[n].highlightIndex # Undefined
                           /\ frame.heap[n].xpath # ""}
        IN  ret.xpaths[1] = {<<IndexToString(frame.heap[n].highlightIndex[1]), frame.heap[n].xpath>> :
                                n \in indexed}

\* a capture whose every reachable element with an xpath has an index gets
\* its locator map
C28_AllIndexedCaptureIsMapped ==
    /\ upc = "returned"
    /\ ret.xpaths = <<{<<"0", "/div/button">>, <<"1", "/div/span">>}>>

\* following the parent references from a node reaches the root within the
\* given number of steps
RECURSIVE ReachesRoot(_, _, _, _)
ReachesRoot(heap, root, node, steps) ==
    IF node = root THEN TRUE
    ELSE IF steps = 0 \/ heap[node].parent = Undefined THEN FALSE
    ELSE ReachesRoot(heap, root, heap[node].parent[1], steps - 1)

\* C33: in a tree convertToDOMNode returned, every node in an element's
\* children has that element as its parent, the root's parent is null, and
\* the parent references lead from every node to the root
C33_ParentsMirrorChildren ==
    HasTree =>
        LET heap == frame.heap
            root == frame.convertedRoot[1]
        IN  /\ heap[root].parent = Undefined
            /\ \A e \in 1..Len(heap) : \A i \in 1..Len(heap[e].children) :
                   heap[heap[e].children[i]].parent = <<e>>
            /\ \A n \in 1..Len(heap) : ReachesRoot(heap, root, n, Len(heap))

\* a tree with a node two levels below the root has been returned
C33_Witness ==
    /\ upc = "converted"
    /\ \E n \in 1..Len(frame.heap) :
           /\ frame.heap[n].kind = "text"
           /\ frame.heap[n].parent # Undefined
           /\ frame.heap[frame.heap[n].parent[1]].parent = frame.convertedRoot

\* ====================================================== the side panel

\* the sends one run of the panel follows
MaxSends == 2

\* what the user can have typed into the input
InputTexts == {"", "  ", " Go ", "Go"}

\* the component after its first render: useState([]), useState(''),
\* useState(false), useState(null); no getChatResponse call has been made
PanelInit ==
    /\ LoopAtRest
    /\ call = [fn |-> "SidePanel"]
    /\ upc = <<>>
    /\ frame = [messages |-> <<>>, inputMessage |-> "", isLoading |-> FALSE, error |-> Undefined]
    /\ ret = <<>>
    /\ effects = <<>>

\* onChange of the input: setInputMessage(e.target.value); the input is
\* disabled while isLoading
onChange ==
    /\ ~frame.isLoading
    /\ \E value \in InputTexts :
        /\ value # frame.inputMessage
        /\ frame' = [frame EXCEPT !.inputMessage = value]
    /\ UNCHANGED <<call, upc, ret, effects, loopVars>>

\* the Send button or the Enter key, both off while isLoading, call
\* handleSendMessage; it runs up to its await: it returns on a blank input,
\* otherwise clears the error, appends the user message, empties the input
\* and calls getChatResponse(inputMessage), which starts by reading the
\* configuration
handleSendMessage ==
    /\ ~frame.isLoading
    /\ Len(upc) < MaxSends
    /\ Trim(frame.inputMessage) # ""
    /\ frame' = [frame EXCEPT !.error = Undefined,
                              !.messages = Append(@, [role |-> "user", content |-> frame.inputMessage]),
                              !.inputMessage = ""]
    /\ upc' = Append(upc, "entry_config")
    /\ ret' = Append(ret, NoReturn)
    /\ effects' = Append(effects, [invocation |-> Len(upc) + 1, request |-> "configStorage.get"])
    /\ UNCHANGED <<call, loopVars>>

\* Clear Chat: the messages become the one welcome message
handleClearChat ==
    /\ frame.messages # <<[role |-> "assistant", content |-> "Chat history cleared."]>>
    /\ frame' = [frame EXCEPT !.messages = <<[role |-> "assistant", content |-> "Chat history cleared."]>>]
    /\ UNCHANGED <<call, upc, ret, effects, loopVars>>

\* the await of handleSendMessage settles with a rejection: the catch sets
\* the error
SendRejected(i, error) ==
    /\ upc' = [upc EXCEPT ![i] = "settled"]
    /\ ret' = [ret EXCEPT ![i] = Rejected(error)]
    /\ frame' = [frame EXCEPT !.error = <<error.message>>]
    /\ UNCHANGED effects

\* a pending invocation of getChatResponse takes its next step against the
\* page and the completion API: the configuration is read and the round's
\* capture is requested, the capture settles and the completion request is
\* sent, the round ends and the invocation returns its content
InvocationSteps ==
    /\ \E i \in 1..Len(upc) :
       CASE upc[i] = "entry_config" ->
                \/ SendRejected(i, ErrConfigRead)
                \/ /\ upc' = [upc EXCEPT ![i] = "capturing"]
                   /\ effects' = Append(effects, [invocation |-> i, request |-> "GET_PAGE_DATA"])
                   /\ UNCHANGED <<ret, frame>>
         [] upc[i] = "capturing" ->
                /\ upc' = [upc EXCEPT ![i] = "completing"]
                /\ effects' = Append(effects, [invocation |-> i, request |-> "chat completion"])
                /\ UNCHANGED <<ret, frame>>
         [] upc[i] = "completing" ->
                /\ upc' = [upc EXCEPT ![i] = "settled"]
                /\ ret' = [ret EXCEPT ![i] = Resolved([content |-> ErrNotAFunction.message])]
                /\ UNCHANGED <<effects, frame>>
         [] OTHER -> FALSE
    /\ UNCHANGED <<call, loopVars>>

PanelNext ==
    \/ onChange
    \/ handleSendMessage
    \/ handleClearChat
    \/ InvocationSteps

PanelSpec == PanelInit /\ [][PanelNext]_vars

\* the invocations of getChatResponse that have started and not settled
ActiveInvocations == {i \in 1..Len(upc) : upc[i] # "settled"}

\* C31: at most one invocation of the agent loop is active at any time: while
\* a getChatResponse call of the panel is pending, a second send starts no
\* other invocation.
C31_OneActiveInvocation == Cardinality(ActiveInvocations) <= 1

\* ====================================== the content-script message listener

\* the messages one run of the listener follows
MaxMessages == 3

\* the request types the side panel sends, and one no branch handles
MessageTypes == {"GET_PAGE_DATA", "EXECUTE_ACTION", "REMOVE_HIGHLIGHTS", "GET_SCROLL_INFO", "PING"}

\* the two copies of the content script in the repository
ContentScripts == {"pages/content/src/index.ts", "unnamed/part_001"}

\* the values sendResponse is called with
ResponsePageData == "{title, url, clickableElements, xpaths}"
ResponseFailure == "{success: false, error}"
ResponseActionResult == "ActionResponse"
ResponseSuccess == "{success: true}"
ResponseScrollInfo == "{pixelsAbove, pixelsBelow}"
ResponseTrue == "true"
ResponseUndefined == "undefined"

\* the listener is registered and no message has arrived: received holds
\* the types of the messages in arrival order, executing the EXECUTE_ACTION
\* messages whose action has not settled, timers the pending setTimeout
\* callbacks by the message that set them, overlay the captures whose
\* highlights are in the page, removed which request removed which
\* capture's highlights
ListenerInit ==
    /\ LoopAtRest
    /\ call \in [script : ContentScripts]
    /\ upc = "listening"
    /\ frame = [received |-> <<>>, executing |-> {}, timers |-> {}, overlay |-> {}, removed |-> {}]
    /\ ret = NoReturn
    /\ effects = <<>>

\* sendResponse(value) of the listener call for message to
sendResponse(calls, to, value) == Append(calls, [to |-> to, value |-> value])

\* buildDomTree({doHighlightElements: true, ...}) of capture id paints a
\* highlight overlay per indexed element
PaintHighlights(f, id) == [f EXCEPT !.overlay = @ \cup {id}]

\* removeHighlights(), run for request by: the element with the id
\* 'playwright-highlight-container' is removed, and every highlight with it
removeHighlights(f, by) ==
    [f EXCEPT !.overlay = {}, !.removed = @ \cup {<<by, k>> : k \in f.overlay}]

\* the listener is called with a message: handleAsyncResponse runs to its
\* return or, for EXECUTE_ACTION, into executeAction, and the then-callback
\* calls sendResponse with what it returned
onMessage ==
    /\ Len(frame.received) < MaxMessages
    /\ \E type \in MessageTypes :
        LET id == Len(frame.received) + 1
            f == [frame EXCEPT !.received = Append(@, type)]
        IN  CASE type = "GET_PAGE_DATA" ->
                    /\ frame' = PaintHighlights(f, id)
                    /\ \/ effects' = sendResponse(effects, id, ResponsePageData)
                       \/ effects' = sendResponse(effects, id, ResponseFailure)
              [] type = "EXECUTE_ACTION" ->
                    /\ frame' = [f EXCEPT !.executing = @ \cup {id}]
                    /\ UNCHANGED effects
              [] type = "REMOVE_HIGHLIGHTS" ->
                    /\ frame' = IF call.script = "pages/content/src/index.ts"
                                THEN [f EXCEPT !.timers = @ \cup {id}]
                                ELSE removeHighlights(f, id)
                    /\ effects' = sendResponse(effects, id, ResponseSuccess)
              [] type = "GET_SCROLL_INFO" ->
                    /\ frame' = f
                    /\ effects' = sendResponse(sendResponse(effects, id, ResponseScrollInfo),
                                               id, ResponseTrue)
              [] OTHER ->
                    /\ frame' = f
                    /\ effects' = sendResponse(effects, id, ResponseUndefined)
    /\ UNCHANGED <<call, upc, ret, loopVars>>

\* executeAction(message.action) of an EXECUTE_ACTION message settles: its
\* response, or the failure the catch builds from its rejection, is sent
ExecuteActionSettles ==
    /\ \E id \in frame.executing :
        /\ frame' = [frame EXCEPT !.executing = @ \ {id}]
        /\ \/ effects' = sendResponse(effects, id, ResponseActionResult)
           \/ effects' = sendResponse(effects, id, ResponseFailure)
    /\ UNCHANGED <<call, upc, ret, loopVars>>

\* the 5000 ms of setTimeout(removeHighlights, 5000) have passed
RemoveHighlightsTimerFires ==
    /\ \E id \in frame.timers :
        frame' = removeHighlights([frame EXCEPT !.timers = @ \ {id}], id)
    /\ UNCHANGED <<call, upc, ret, effects, loopVars>>

ListenerNext ==
    \/ onMessage
    \/ ExecuteActionSettles
    \/ RemoveHighlightsTimerFires

ListenerSpec == ListenerInit /\ [][ListenerNext]_vars

\* C34: a REMOVE_HIGHLIGHTS request removes only highlights that were in the
\* page when it was received: no request has removed the highlights of a
\* capture handled after it.
C34_RemovesOnlyEarlierHighlights ==
    \A pair \in frame.removed : pair[2] < pair[1]

\* the sendResponse calls made for message id
CallsFor(id) == SelectSeq(effects, LAMBDA c : c.to = id)

\* the responses the channel defines for a request type
DefinedResponses(type) ==
    CASE type = "GET_PAGE_DATA" -> {ResponsePageData, ResponseFailure}
      [] type = "EXECUTE_ACTION" -> {ResponseActionResult, ResponseFailure}
      [] type = "REMOVE_HIGHLIGHTS" -> {ResponseSuccess}
      [] type = "GET_SCROLL_INFO" -> {ResponseScrollInfo}
      [] OTHER -> {ResponseUndefined}

\* C35: for every message the listener received, sendResponse is called
\* exactly once, once the handling of the message is over, and with a
\* response defined for the type of the message.
C35_OneDefinedResponse ==
    \A id \in 1..Len(frame.received) :
        /\ Len(CallsFor(id)) = (IF id \in frame.executing THEN 0 ELSE 1)
        /\ \A i \in 1..Len(CallsFor(id)) :
               CallsFor(id)[i].value \in DefinedResponses(frame.received[id])

====
